---- MODULE Spec2Model ----
(***************************************************************************)
(* Media normalization pipeline of chaingallery: the type detector, the    *)
(* fetcher and the converters of server/mediaUtils.js, and the pipeline    *)
(* entry point processNftMedia with its in-memory result cache.            *)
(*                                                                         *)
(* JavaScript strings are modelled as sequences of one-character strings,  *)
(* so that split, replace, startsWith, toLowerCase and trim are computed   *)
(* as the code computes them.  A rejected promise or a thrown exception is *)
(* a value: an error is the sequence of the parts of its message.          *)
(***************************************************************************)
EXTENDS Integers, Sequences, FiniteSets, TLC

----------------------------------------------------------------------------
(* String primitives of the JavaScript runtime.                            *)

MinOf(S) == CHOOSE x \in S : \A y \in S : x <= y
MaxOf(S) == CHOOSE x \in S : \A y \in S : y <= x

StartsWith(s, p) == Len(p) <= Len(s) /\ SubSeq(s, 1, Len(p)) = p

\* String.prototype.indexOf, 1-based; 0 when pat does not occur.
IndexOf(s, pat) ==
    LET hits == {i \in 1..(Len(s) - Len(pat) + 1) : SubSeq(s, i, i + Len(pat) - 1) = pat}
    IN  IF hits = {} THEN 0 ELSE MinOf(hits)

Includes(s, pat) == IndexOf(s, pat) # 0

\* String.prototype.split with a non-empty separator.
RECURSIVE Split(_, _)
Split(s, sep) ==
    LET i == IndexOf(s, sep)
    IN  IF i = 0 THEN <<s>>
        ELSE <<SubSeq(s, 1, i - 1)>> \o Split(SubSeq(s, i + Len(sep), Len(s)), sep)

\* Array.prototype.pop on the result of split (never empty).
Pop(parts) == parts[Len(parts)]

\* String.prototype.replace with a string pattern: the first occurrence only.
Replace(s, pat, rep) ==
    LET i == IndexOf(s, pat)
    IN  IF i = 0 THEN s
        ELSE SubSeq(s, 1, i - 1) \o rep \o SubSeq(s, i + Len(pat), Len(s))

UpperChars ==
    <<"A", "B", "C", "D", "E", "F", "G", "H", "I", "J", "K", "L", "M",
      "N", "O", "P", "Q", "R", "S", "T", "U", "V", "W", "X", "Y", "Z">>
LowerChars ==
    <<"a", "b", "c", "d", "e", "f", "g", "h", "i", "j", "k", "l", "m",
      "n", "o", "p", "q", "r", "s", "t", "u", "v", "w", "x", "y", "z">>
DigitChars == {"0", "1", "2", "3", "4", "5", "6", "7", "8", "9"}

Range(f) == {f[i] : i \in DOMAIN f}

LowerOf(c) ==
    IF c \in Range(UpperChars)
    THEN LowerChars[CHOOSE i \in 1..Len(UpperChars) : UpperChars[i] = c]
    ELSE c

ToLowerCase(s) == [i \in 1..Len(s) |-> LowerOf(s[i])]

\* String.prototype.trim.
Trim(s) ==
    LET keep == {i \in 1..Len(s) : s[i] # " "}
    IN  IF keep = {} THEN <<>> ELSE SubSeq(s, MinOf(keep), MaxOf(keep))

\* a || b on strings: the empty string is falsy.
OrElse(s, d) == IF s = <<>> THEN d ELSE s

IsAlnum(c) == c \in Range(UpperChars) \cup Range(LowerChars) \cup DigitChars

\* Index of the first character of s in the set chars; Len(s) + 1 when none.
FirstOf(s, chars) ==
    LET hits == {i \in 1..Len(s) : s[i] \in chars}
    IN  IF hits = {} THEN Len(s) + 1 ELSE MinOf(hits)

----------------------------------------------------------------------------
(* String literals of the source and the locators and headers explored.    *)

IpfsScheme ==
    <<"i", "p", "f", "s", ":", "/", "/">>
IpfsGateway0 ==
    <<"h", "t", "t", "p", "s", ":", "/", "/", "i", "p", "f", "s", ".", "i", "o", "/", "i", "p", "f", "s", "/">>
IpfsGateway1 ==
    <<"h", "t", "t", "p", "s", ":", "/", "/", "g", "a", "t", "e", "w", "a", "y", ".", "p", "i", "n", "a", "t", "a", ".", "c", "l", "o", "u", "d", "/", "i", "p", "f", "s", "/">>
IpfsGateway2 ==
    <<"h", "t", "t", "p", "s", ":", "/", "/", "c", "l", "o", "u", "d", "f", "l", "a", "r", "e", "-", "i", "p", "f", "s", ".", "c", "o", "m", "/", "i", "p", "f", "s", "/">>
IpfsGateway3 ==
    <<"h", "t", "t", "p", "s", ":", "/", "/", "d", "w", "e", "b", ".", "l", "i", "n", "k", "/", "i", "p", "f", "s", "/">>
DataScheme ==
    <<"d", "a", "t", "a", ":">>
OptimizedSuffix ==
    <<"_", "o", "p", "t", "i", "m", "i", "z", "e", "d">>
OctetStream ==
    <<"a", "p", "p", "l", "i", "c", "a", "t", "i", "o", "n", "/", "o", "c", "t", "e", "t", "-", "s", "t", "r", "e", "a", "m">>
ImagePrefix ==
    <<"i", "m", "a", "g", "e", "/">>
VideoPrefix ==
    <<"v", "i", "d", "e", "o", "/">>
AudioPrefix ==
    <<"a", "u", "d", "i", "o", "/">>
ImagePng ==
    <<"i", "m", "a", "g", "e", "/", "p", "n", "g">>
ImageJpeg ==
    <<"i", "m", "a", "g", "e", "/", "j", "p", "e", "g">>
ImageWebp ==
    <<"i", "m", "a", "g", "e", "/", "w", "e", "b", "p">>
ImageHeic ==
    <<"i", "m", "a", "g", "e", "/", "h", "e", "i", "c">>
ImageHeif ==
    <<"i", "m", "a", "g", "e", "/", "h", "e", "i", "f">>
ImageGif ==
    <<"i", "m", "a", "g", "e", "/", "g", "i", "f">>
ImageSvg ==
    <<"i", "m", "a", "g", "e", "/", "s", "v", "g", "+", "x", "m", "l">>
VideoMp4 ==
    <<"v", "i", "d", "e", "o", "/", "m", "p", "4">>
VideoWebm ==
    <<"v", "i", "d", "e", "o", "/", "w", "e", "b", "m">>
VideoQuicktime ==
    <<"v", "i", "d", "e", "o", "/", "q", "u", "i", "c", "k", "t", "i", "m", "e">>
AudioMpeg ==
    <<"a", "u", "d", "i", "o", "/", "m", "p", "e", "g">>
AudioWav ==
    <<"a", "u", "d", "i", "o", "/", "w", "a", "v">>
Base64Word ==
    <<"b", "a", "s", "e", "6", "4">>
ExtPng ==
    <<"p", "n", "g">>
ExtJpg ==
    <<"j", "p", "g">>
ExtJpeg ==
    <<"j", "p", "e", "g">>
ExtWebp ==
    <<"w", "e", "b", "p">>
ExtGif ==
    <<"g", "i", "f">>
ExtSvg ==
    <<"s", "v", "g">>
ExtMp4 ==
    <<"m", "p", "4">>
ExtWebm ==
    <<"w", "e", "b", "m">>
ExtMov ==
    <<"m", "o", "v">>
ExtMp3 ==
    <<"m", "p", "3">>
ExtWav ==
    <<"w", "a", "v">>
ExtBin ==
    <<"b", "i", "n">>
HttpScheme ==
    <<"h", "t", "t", "p">>
HttpsScheme ==
    <<"h", "t", "t", "p", "s">>
HdrPngUpper ==
    <<"I", "m", "a", "g", "e", "/", "P", "N", "G", ";", " ", "c", "h", "a", "r", "s", "e", "t", "=", "b", "i", "n", "a", "r", "y">>
HdrGifSpaced ==
    <<" ", "i", "m", "a", "g", "e", "/", "g", "i", "f", " ">>
HdrTextHtml ==
    <<"t", "e", "x", "t", "/", "h", "t", "m", "l">>
LocPng ==
    <<"h", "t", "t", "p", ":", "/", "/", "h", "/", "a", ".", "p", "n", "g">>
LocGif ==
    <<"h", "t", "t", "p", ":", "/", "/", "h", "/", "a", ".", "g", "i", "f">>
LocNoExt ==
    <<"h", "t", "t", "p", "s", ":", "/", "/", "h", "/", "x">>
LocIpfsMp4 ==
    <<"i", "p", "f", "s", ":", "/", "/", "Q", "/", "v", ".", "m", "p", "4">>
LocGatewayMp4 ==
    <<"h", "t", "t", "p", "s", ":", "/", "/", "i", "p", "f", "s", ".", "i", "o", "/", "i", "p", "f", "s", "/", "Q", "/", "v", ".", "m", "p", "4">>
LocMp3 ==
    <<"h", "t", "t", "p", ":", "/", "/", "h", "/", "s", ".", "m", "p", "3", "?", "t", "=", "1">>
LocDataSvg ==
    <<"d", "a", "t", "a", ":", "i", "m", "a", "g", "e", "/", "s", "v", "g", "+", "x", "m", "l", ";", "b", "a", "s", "e", "6", "4", ",", "P", "H", "N", "2", "Z", "z", "4", "=">>
LocDataNoData ==
    <<"d", "a", "t", "a", ":", "i", "m", "a", "g", "e", "/", "p", "n", "g", ",">>
LocDataBare ==
    <<"d", "a", "t", "a", ":">>
LocRelative ==
    <<"h", "/", "a", ".", "g", "i", "f">>
LocDataNoComma ==
    <<"d", "a", "t", "a", ":", "i", "m", "a", "g", "e", "/", "p", "n", "g">>
LocDataEmptyMime ==
    <<"d", "a", "t", "a", ":", ",", "x">>
LocDataCommas ==
    <<"d", "a", "t", "a", ":", "i", "m", "a", "g", "e", "/", "s", "v", "g", "+", "x", "m", "l", ",", "<", "s", "v", "g", " ", "v", "i", "e", "w", "B", "o", "x", "=", "'", "0", ",", "0", ",", "9", ",", "9", "'", "/", ">">>
LocDataPercent ==
    <<"d", "a", "t", "a", ":", "i", "m", "a", "g", "e", "/", "s", "v", "g", "+", "x", "m", "l", ",", "%", "3", "C", "s", "v", "g", "/", "%", "3", "E">>
LocDataBadPercent ==
    <<"d", "a", "t", "a", ":", "i", "m", "a", "g", "e", "/", "s", "v", "g", "+", "x", "m", "l", ",", "1", "0", "0", "%">>
LocDataVideo ==
    <<"d", "a", "t", "a", ":", "v", "i", "d", "e", "o", "/", "m", "p", "4", ";", "b", "a", "s", "e", "6", "4", ",", "A", "A", "A", "A">>
LocDataPng ==
    <<"d", "a", "t", "a", ":", "i", "m", "a", "g", "e", "/", "p", "n", "g", ";", "b", "a", "s", "e", "6", "4", ",", "A", "A", "A", "A">>
LocDataGif ==
    <<"d", "a", "t", "a", ":", "i", "m", "a", "g", "e", "/", "g", "i", "f", ";", "b", "a", "s", "e", "6", "4", ",", "R", "0", "l", "G">>
LocDataAudio ==
    <<"d", "a", "t", "a", ":", "a", "u", "d", "i", "o", "/", "m", "p", "e", "g", ";", "b", "a", "s", "e", "6", "4", ",", "A", "A", "A", "A">>
LocDataHtml ==
    <<"d", "a", "t", "a", ":", "t", "e", "x", "t", "/", "h", "t", "m", "l", ",", "x">>
LocJpg ==
    <<"h", "t", "t", "p", ":", "/", "/", "h", "/", "a", ".", "j", "p", "g">>
LocJpeg ==
    <<"h", "t", "t", "p", ":", "/", "/", "h", "/", "a", ".", "j", "p", "e", "g">>
LocWebp ==
    <<"h", "t", "t", "p", ":", "/", "/", "h", "/", "a", ".", "w", "e", "b", "p">>
LocSvg ==
    <<"h", "t", "t", "p", ":", "/", "/", "h", "/", "a", ".", "s", "v", "g">>
LocMp4 ==
    <<"h", "t", "t", "p", ":", "/", "/", "h", "/", "a", ".", "m", "p", "4">>
LocWebm ==
    <<"h", "t", "t", "p", ":", "/", "/", "h", "/", "a", ".", "w", "e", "b", "m">>
LocMov ==
    <<"h", "t", "t", "p", ":", "/", "/", "h", "/", "a", ".", "m", "o", "v">>
LocWav ==
    <<"h", "t", "t", "p", ":", "/", "/", "h", "/", "a", ".", "w", "a", "v", "#", "t">>
LocPngUpper ==
    <<"h", "t", "t", "p", ":", "/", "/", "h", "/", "A", ".", "P", "N", "G">>
LocTxt ==
    <<"h", "t", "t", "p", ":", "/", "/", "h", "/", "a", ".", "t", "x", "t">>
LocTarGz ==
    <<"h", "t", "t", "p", ":", "/", "/", "h", "/", "a", ".", "p", "n", "g", ".", "g", "z">>
LocConstructor ==
    <<"h", "t", "t", "p", ":", "/", "/", "h", "/", "a", ".", "c", "o", "n", "s", "t", "r", "u", "c", "t", "o", "r">>
ExtConstructor ==
    <<"c", "o", "n", "s", "t", "r", "u", "c", "t", "o", "r">>
ExtToString ==
    <<"t", "o", "S", "t", "r", "i", "n", "g">>
ExtValueOf ==
    <<"v", "a", "l", "u", "e", "O", "f">>
ExtProto ==
    <<"_", "_", "p", "r", "o", "t", "o", "_", "_">>
ExtHasOwnProperty ==
    <<"h", "a", "s", "O", "w", "n", "P", "r", "o", "p", "e", "r", "t", "y">>

----------------------------------------------------------------------------
(* Pure functions of server/mediaUtils.js.                                 *)

\* new URL(url).pathname with no base URL: ok = FALSE when the constructor
\* throws (no scheme, or an http(s) URL with no host).
ParseUrlPathname(url) ==
    LET colon  == IndexOf(url, <<":">>)
        scheme == ToLowerCase(SubSeq(url, 1, colon - 1))
        rest   == SubSeq(url, colon + 1, Len(url))
        valid  == /\ colon > 1
                  /\ scheme[1] \in Range(LowerChars)
                  /\ \A i \in 1..Len(scheme) : IsAlnum(scheme[i]) \/ scheme[i] \in {"+", "-", "."}
        special == scheme \in {HttpScheme, HttpsScheme}
        slashes == FirstOf(rest, {c \in Range(rest) : c # "/"}) - 1
        after   == IF special THEN SubSeq(rest, slashes + 1, Len(rest))
                   ELSE IF StartsWith(rest, <<"/", "/">>) THEN SubSeq(rest, 3, Len(rest))
                   ELSE rest
        opaque  == ~special /\ ~StartsWith(rest, <<"/", "/">>)
        hostEnd == IF opaque THEN 1 ELSE FirstOf(after, {"/", "?", "#"})
        host    == SubSeq(after, 1, hostEnd - 1)
        tail    == SubSeq(after, hostEnd, Len(after))
        path    == SubSeq(tail, 1, FirstOf(tail, {"?", "#"}) - 1)
    IN  IF ~valid \/ (special /\ host = <<>>)
        THEN [ok |-> FALSE, pathname |-> <<>>]
        ELSE [ok |-> TRUE,
              pathname |-> IF special /\ path = <<>> THEN <<"/">> ELSE path]

\* node-fetch accepts absolute http(s) URLs only; for anything else the
\* returned promise rejects before a request is made.
IsFetchableUrl(url) ==
    LET colon == IndexOf(url, <<":">>)
    IN  /\ colon > 1
        /\ ToLowerCase(SubSeq(url, 1, colon - 1)) \in {HttpScheme, HttpsScheme}
        /\ ParseUrlPathname(url).ok

isNativeSupported(mimeType) ==
    mimeType \in {ImagePng, ImageJpeg, ImageWebp, ImageHeic, ImageHeif}

\* Mutant of categorizeMedia: the image/ test answers before the GIF test.
categorizeMedia_GifAsStatic(mimeType) ==
    IF StartsWith(mimeType, ImagePrefix)
    THEN IF mimeType = ImageSvg THEN "vector_image" ELSE "static_image"
    ELSE IF StartsWith(mimeType, VideoPrefix) THEN "video"
    ELSE IF StartsWith(mimeType, AudioPrefix) THEN "audio"
    ELSE "unknown"

categorizeMedia(mimeType) ==
    IF StartsWith(mimeType, ImagePrefix)
    THEN IF mimeType = ImageGif THEN "animated_image"
         ELSE IF mimeType = ImageSvg THEN "vector_image"
         ELSE "static_image"
    ELSE IF StartsWith(mimeType, VideoPrefix) THEN "video"
    ELSE IF StartsWith(mimeType, AudioPrefix) THEN "audio"
    ELSE "unknown"

\* size is kept in quarter bytes, so that the data-URL estimate
\* url.length * 0.75 stays an integer.
analyzeMediaInfo(contentType, size, url) ==
    LET mimeType == Trim(Split(ToLowerCase(contentType), <<";">>)[1])
    IN  [mimeType   |-> mimeType,
         size       |-> size,
         url        |-> url,
         isImage    |-> StartsWith(mimeType, ImagePrefix),
         isVideo    |-> StartsWith(mimeType, VideoPrefix),
         isAudio    |-> StartsWith(mimeType, AudioPrefix),
         isAnimated |-> mimeType = ImageGif \/ StartsWith(mimeType, VideoPrefix),
         isVector   |-> mimeType = ImageSvg,
         isSupported     |-> isNativeSupported(mimeType),
         needsConversion |-> ~isNativeSupported(mimeType),
         category   |-> categorizeMedia(mimeType)]

\* Property names every object literal inherits from Object.prototype: a
\* lookup of one of them in the table gives a function or an object.
InheritedKeys == {ExtConstructor, ExtToString, ExtValueOf, ExtProto, ExtHasOwnProperty}
Inherited == <<"[inherited]">>

\* Mutant of mimeTypeMap: the table has no entry for jpeg.
mimeTypeMap_NoJpeg(extension) ==
    CASE extension = ExtPng  -> ImagePng
      [] extension = ExtJpg  -> ImageJpeg
      [] extension = ExtWebp -> ImageWebp
      [] extension = ExtGif  -> ImageGif
      [] extension = ExtSvg  -> ImageSvg
      [] extension = ExtMp4  -> VideoMp4
      [] extension = ExtWebm -> VideoWebm
      [] extension = ExtMov  -> VideoQuicktime
      [] extension = ExtMp3  -> AudioMpeg
      [] extension = ExtWav  -> AudioWav
      [] extension \in InheritedKeys -> Inherited
      [] OTHER -> <<>>

\* The extension table of analyzeFromUrl; <<>> stands for a missing property.
mimeTypeMap(extension) ==
    CASE extension = ExtPng  -> ImagePng
      [] extension = ExtJpg  -> ImageJpeg
      [] extension = ExtJpeg -> ImageJpeg
      [] extension = ExtWebp -> ImageWebp
      [] extension = ExtGif  -> ImageGif
      [] extension = ExtSvg  -> ImageSvg
      [] extension = ExtMp4  -> VideoMp4
      [] extension = ExtWebm -> VideoWebm
      [] extension = ExtMov  -> VideoQuicktime
      [] extension = ExtMp3  -> AudioMpeg
      [] extension = ExtWav  -> AudioWav
      [] extension \in InheritedKeys -> Inherited
      [] OTHER -> <<>>

\* A thrown exception or a rejected promise, as a value.
Thrown(message) == [thrown |-> message]
IsThrown(v) == "thrown" \in DOMAIN v

\* Mutant of analyzeFromUrl: the try/catch around new URL(url) is missing.
analyzeFromUrl_NoCatch(url) ==
    LET parsed    == ParseUrlPathname(url)
        extension == ToLowerCase(Pop(Split(parsed.pathname, <<".">>)))
        mimeType  == OrElse(mimeTypeMap(extension), OctetStream)
    IN  IF ~parsed.ok THEN Thrown(<<"Invalid URL">>)
        ELSE IF mimeType = Inherited
        THEN Thrown(<<"contentType.toLowerCase is not a function">>)
        ELSE analyzeMediaInfo(mimeType, 0, url)

\* try { ... } catch { return unknown }: new URL(url) throws for a string
\* that is no absolute URL, and analyzeMediaInfo throws when the table
\* lookup gave an inherited property instead of a string.
analyzeFromUrl(url) ==
    LET parsed    == ParseUrlPathname(url)
        extension == ToLowerCase(Pop(Split(parsed.pathname, <<".">>)))
        mimeType  == OrElse(mimeTypeMap(extension), OctetStream)
    IN  IF parsed.ok /\ mimeType # Inherited
        THEN analyzeMediaInfo(mimeType, 0, url)
        ELSE analyzeMediaInfo(OctetStream, 0, url)

\* Mutant of convertIpfsToHttp: the scheme is not removed from the locator.
convertIpfsToHttp_KeepScheme(url) ==
    IF StartsWith(url, IpfsScheme) THEN IpfsGateway0 \o url ELSE url

convertIpfsToHttp(url) ==
    IF StartsWith(url, IpfsScheme)
    THEN LET ipfsHash == Replace(url, IpfsScheme, <<>>)
             gateways == <<IpfsGateway0 \o ipfsHash, IpfsGateway1 \o ipfsHash,
                           IpfsGateway2 \o ipfsHash, IpfsGateway3 \o ipfsHash>>
         IN  gateways[1]
    ELSE url

\* The data-URL branch of detectMediaType (no await inside it).
detectDataUrl(url) ==
    LET header   == Split(url, <<",">>)[1]
        mimeType == OrElse(Replace(Split(header, <<";">>)[1], DataScheme, <<>>), OctetStream)
        estimatedSize == Len(url) * 3
    IN  analyzeMediaInfo(mimeType, estimatedSize, url)

\* parseInt on a header value: the leading decimal digits; NaN when there are none.
NaN == -1
RECURSIVE DigitsValue(_)
DigitsValue(s) ==
    IF s = <<>> THEN 0
    ELSE 10 * DigitsValue(SubSeq(s, 1, Len(s) - 1))
         + (CHOOSE d \in 0..9 : <<"0", "1", "2", "3", "4", "5", "6", "7", "8", "9">>[d + 1] = s[Len(s)])
parseInt(s) ==
    LET t      == Trim(s)
        digits == SubSeq(t, 1, FirstOf(t, Range(t) \ DigitChars) - 1)
    IN  IF digits = <<>> THEN NaN ELSE DigitsValue(digits)

\* Descriptor sizes are kept in quarter bytes (see analyzeMediaInfo).
QuarterBytes(n) == IF n = NaN THEN NaN ELSE 4 * n

\* The descriptor built from the response of the HEAD probe (status ok).
detectFromHead(headers, url) ==
    analyzeMediaInfo(OrElse(headers.contentType, OctetStream),
                     QuarterBytes(parseInt(OrElse(headers.contentLength, <<"0">>))), url)

\* The descriptor built from the response of the ranged GET, whatever its status.
detectFromRangedGet(headers, url) ==
    LET contentType   == OrElse(headers.contentType, OctetStream)
        rangeTotal    == IF headers.contentRange = <<>> THEN <<>>
                         ELSE LET parts == Split(headers.contentRange, <<"/">>)
                              IN  IF Len(parts) >= 2 THEN parts[2] ELSE <<>>
        contentLength == OrElse(headers.contentLength, OrElse(rangeTotal, <<"0">>))
    IN  analyzeMediaInfo(contentType, QuarterBytes(parseInt(contentLength)), url)

----------------------------------------------------------------------------
(* The fetcher: downloadMedia up to the point where the file is written.   *)

MAX_MEDIA_BYTES == 20 * 1024 * 1024

HexChars ==
    DigitChars \cup {"a", "b", "c", "d", "e", "f", "A", "B", "C", "D", "E", "F"}

\* decodeURIComponent: every % must be followed by two hexadecimal digits,
\* or a URIError is thrown; each escape decodes to one character.
decodeURIComponent(s) ==
    LET escapes == {i \in 1..Len(s) : s[i] = "%"}
    IN  [ok |-> \A i \in escapes :
                  i + 2 <= Len(s) /\ s[i + 1] \in HexChars /\ s[i + 2] \in HexChars,
         length |-> Len(s) - 2 * Cardinality(escapes)]

\* Byte length of the bytes decoded from the data segment of a data URL:
\* three bytes per four base64 characters less the padding, or one byte per
\* character of the percent-decoded text.
decodedByteLength(header, data) ==
    IF Includes(header, Base64Word)
    THEN LET body == SelectSeq(data, LAMBDA c : c # "=")
         IN  (Len(body) * 3) \div 4
    ELSE decodeURIComponent(data).length

extensionMap(mimeType) ==
    CASE mimeType = ImagePng  -> ExtPng
      [] mimeType = ImageJpeg -> ExtJpg
      [] mimeType = ImageSvg  -> ExtSvg
      [] mimeType = ImageGif  -> ExtGif
      [] mimeType = ImageWebp -> ExtWebp
      [] OTHER -> <<>>

\* Lines 230-255: the extension of the temporary file.
safeExtensionOf(url) ==
    LET extension ==
            IF StartsWith(url, DataScheme)
            THEN LET header   == Split(url, <<",">>)[1]
                     mimeType == Replace(Split(header, <<";">>)[1], DataScheme, <<>>)
                 IN  OrElse(extensionMap(mimeType), ExtBin)
            ELSE LET urlPath == ParseUrlPathname(convertIpfsToHttp(url)).pathname
                 IN  OrElse(ToLowerCase(Pop(Split(urlPath, <<".">>))), ExtBin)
    IN  OrElse(SelectSeq(extension, IsAlnum), ExtBin)

\* Mutant of tooLarge: a buffer of exactly the maximum is refused too.
tooLarge_Inclusive(byteLength) == byteLength >= MAX_MEDIA_BYTES

\* The security check of line 226.
tooLarge(byteLength) == byteLength > MAX_MEDIA_BYTES

\* The data-URL branch of downloadMedia, lines 190-207: header and data are
\* the first two pieces of url.split(','); the result is the decoded byte
\* length and what was decoded, or the error thrown.
decodeDataUrl(url) ==
    LET parts  == Split(url, <<",">>)
        header == parts[1]
        data   == IF Len(parts) >= 2 THEN parts[2] ELSE <<>>
        base64 == Includes(header, Base64Word)
    IN  IF data = <<>>
        THEN [ok |-> FALSE, byteLength |-> 0, decoded |-> <<>>,
              error |-> <<"Failed to process data URL: ", "Invalid data URL format">>]
        ELSE IF ~base64 /\ ~decodeURIComponent(data).ok
        THEN [ok |-> FALSE, byteLength |-> 0, decoded |-> <<>>,
              error |-> <<"Failed to process data URL: ", "URI malformed">>]
        ELSE [ok |-> TRUE, byteLength |-> decodedByteLength(header, data),
              decoded |-> <<[text |-> data, encoding |-> IF base64 THEN "base64" ELSE "percent"]>>,
              error |-> <<>>]

\* Buffer.from(string, encoding) may place the bytes of a short string in the
\* allocation pool the runtime shares between buffers; its .buffer is then
\* the ArrayBuffer of the whole pool, not of the decoded bytes alone.
POOL_BYTES == 8 * 1024

\* The ArrayBuffer that lines 200 and 203 assign to buffer: its byteLength,
\* and whether its bytes are exactly the decoded bytes.
arrayBufferOf(decoded, pooled) ==
    [byteLength |-> IF pooled THEN POOL_BYTES ELSE decoded.byteLength,
     exact      |-> ~pooled,
     decoded    |-> decoded.decoded]

----------------------------------------------------------------------------
(* State.                                                                  *)

VARIABLES
    now,         \* Date.now(), in milliseconds
    ticks,       \* number of clock advances so far
    calls,       \* number of processNftMedia calls started so far
    mediaCache,  \* the module-level Map: cache key -> [data, timestamp]
    tempFiles,   \* the paths that exist in TEMP_DIR
    fileStats,   \* per path of TEMP_DIR: what fs.stat answers for it
    sweep,       \* the frame of the running cleanupTempFiles call, if any
    prompt,      \* the last generateEnhancedPrompt call: arguments and result
    req,         \* per request slot: the frame of its processNftMedia call
    stored       \* history: per key, the last entry set since the last clear

vars == <<now, ticks, calls, mediaCache, tempFiles, fileStats, sweep, prompt, req, stored>>

CACHE_DURATION == 60 * 60 * 1000

\* Bounds of the exploration: calls started in the cache specification Spec
\* and in the wide-input specification SpecWide, clock advances, and calls
\* started in the specification SpecShared of two requests in flight.
MaxCalls == 2
MaxWideCalls == 1
MaxTicks == 2
MaxSharedCalls == 2
MaxSweepFiles == 2

Requests == {1}

\* Two requests in flight at once: the handler of index.js awaits
\* processNftMedia, and the event loop runs another request meanwhile.
Slots == {1, 2}

\* The nft.image values of the explored calls; <<>> is a missing image.
Images ==
    {<<>>, LocPng, LocGif, LocNoExt, LocIpfsMp4, LocGatewayMp4, LocMp3,
     LocDataSvg, LocDataNoData, LocRelative}

\* The locators on which detection is explored: one for each extension of
\* the table, and locators whose extension the table does not have.
DetectImages ==
    {LocPng, LocJpg, LocJpeg, LocWebp, LocGif, LocSvg, LocMp4, LocWebm, LocMov, LocMp3,
     LocWav, LocPngUpper, LocTxt, LocTarGz, LocConstructor, LocNoExt, LocIpfsMp4,
     LocRelative, LocDataSvg, LocDataNoData, LocDataBare, LocDataNoComma,
     LocDataEmptyMime, LocDataCommas}

\* Inline data URLs: base64 and percent-encoded, of every category, with
\* and without a comma, with commas inside the data, with a malformed escape.
DataImages ==
    {LocDataSvg, LocDataPng, LocDataGif, LocDataVideo, LocDataAudio, LocDataHtml,
     LocDataCommas, LocDataPercent, LocDataBadPercent, LocDataNoData, LocDataNoComma,
     LocDataEmptyMime}

\* The images and headers of the calls that are repeated against the cache.
CachedImages == {LocIpfsMp4, LocGatewayMp4}

\* Response headers a server may send: content-type, content-length and
\* content-range, <<>> when the header is absent.
ResponseHeaders ==
    {[contentType |-> HdrPngUpper, contentLength |-> <<"2", "0", "4", "8">>, contentRange |-> <<>>],
     [contentType |-> HdrGifSpaced, contentLength |-> <<>>,
      contentRange |-> <<"b", "y", "t", "e", "s", " ", "0", "-", "9", "/", "7", "0">>],
     [contentType |-> ImageSvg, contentLength |-> <<>>, contentRange |-> <<>>],
     [contentType |-> VideoMp4, contentLength |-> <<>>, contentRange |-> <<>>],
     [contentType |-> AudioMpeg, contentLength |-> <<>>, contentRange |-> <<>>],
     [contentType |-> HdrTextHtml, contentLength |-> <<>>, contentRange |-> <<>>],
     [contentType |-> <<>>, contentLength |-> <<>>, contentRange |-> <<>>]}

CachedHeaders == {h \in ResponseHeaders : h.contentType \in {HdrGifSpaced, VideoMp4}}

\* Byte lengths of downloaded bodies.
BodyLengths == {1, MAX_MEDIA_BYTES, MAX_MEDIA_BYTES + 1, 2 * MAX_MEDIA_BYTES}
CachedBodyLengths == {1, MAX_MEDIA_BYTES + 1}

\* Clock advances.
TickSteps == {1, CACHE_DURATION - 1}

\* The image, headers and body of the calls that run side by side: the
\* server answers with a GIF or with a video.
SharedImages == {LocGif}
SharedHeaders == {h \in ResponseHeaders : h.contentType \in {HdrGifSpaced, VideoMp4}}
SharedBodyLengths == {1}

EmptyMap == [x \in {} |-> x]

Idle ==
    [pc |-> "idle", image |-> <<>>, callId |-> 0, cacheKey |-> <<>>, httpUrl |-> <<>>,
     mediaInfo |-> <<>>, pooled |-> FALSE, buffer |-> <<>>, download |-> <<>>,
     outputPath |-> <<>>,
     frame |-> "none", result |-> <<>>, error |-> <<>>,
     \* history of the call, read by the properties only
     lookup |-> "none", ops |-> {}, fetched |-> <<>>, convertFailed |-> FALSE,
     via |-> "none", probes |-> <<>>, fetchFailed |-> FALSE, cleared |-> FALSE]

\* No cleanupTempFiles call is running.
NoSweep == [pc |-> "idle", files |-> <<>>, now |-> 0]

Init ==
    /\ now = 0
    /\ ticks = 0
    /\ calls = 0
    /\ mediaCache = EmptyMap
    /\ tempFiles = {}
    /\ fileStats = EmptyMap
    /\ sweep = NoSweep
    /\ prompt = <<>>
    /\ req = [p \in Requests |-> Idle]
    /\ stored = EmptyMap

----------------------------------------------------------------------------
(* The files of TEMP_DIR.                                                  *)

\* A file is created or overwritten: its modification time is the time of
\* the write, and fs.stat succeeds on it.
writeFile(path) ==
    /\ tempFiles' = tempFiles \cup {path}
    /\ fileStats' = [f \in tempFiles \cup {path} |->
                       IF f = path THEN [ok |-> TRUE, mtime |-> now] ELSE fileStats[f]]

\* fs.unlink(path).catch(() => {}): the file is removed if it is there.
unlink(path) ==
    /\ tempFiles' = tempFiles \ {path}
    /\ fileStats' = [f \in tempFiles \ {path} |-> fileStats[f]]

----------------------------------------------------------------------------
(* Map operations and small helpers.                                       *)

MapHas(m, k) == k \in DOMAIN m
MapSet(m, k, v) == [x \in DOMAIN m \cup {k} |-> IF x = k THEN v ELSE m[x]]
MapDelete(m, k) == [x \in DOMAIN m \ {k} |-> m[x]]

cacheKeyOf(mediaUrl) == mediaUrl \o OptimizedSuffix

\* Mutants of isFresh: the comparison inverted, and the boundary included.
isFresh_Inverted(cached, t) == t - cached.timestamp > CACHE_DURATION
isFresh_Inclusive(cached, t) == t - cached.timestamp <= CACHE_DURATION

\* Line 36: the entry is served while it is younger than CACHE_DURATION.
isFresh(cached, t) == t - cached.timestamp < CACHE_DURATION

getCacheStats == [size |-> Cardinality(DOMAIN mediaCache), entries |-> DOMAIN mediaCache]

\* `Failed to process media: ${error.message}` of line 87.
wrapError(error) == <<"Failed to process media: ">> \o error

\* Mutant of uuidv4: the identifier does not depend on the call.
uuidv4_Fixed(c, n) == <<0, n>>

\* uuidv4(): a fresh identifier; the n-th one drawn by call c.
uuidv4(c, n) == <<c, n>>

Done(p) == req[p].pc \in {"idle", "returned", "threw"}

With(p, r) == [req EXCEPT ![p] = r]

----------------------------------------------------------------------------
(* processNftMedia, lines 26-44: the synchronous prefix of a call, up to   *)
(* the first await.                                                        *)

\* A rejection that reaches the catch of line 83 with no finally block on
\* its way: the call throws the wrapped error.
throwWrapped(r, error) ==
    [r EXCEPT !.pc = "threw", !.error = wrapError(error),
              !.buffer = <<>>, !.download = <<>>, !.outputPath = <<>>]

\* await detectMediaType(httpUrl) settles with the descriptor v, or rejects.
detected(r, v) ==
    IF IsThrown(v) THEN throwWrapped(r, v.thrown)
    ELSE [r EXCEPT !.pc = "detected", !.mediaInfo = <<v>>]

\* Mutant of beginDetect: the HEAD probe is issued for a data URL too.
beginDetect_ProbeAll(r) == [r EXCEPT !.pc = "head", !.ops = @ \cup {"head"}]

\* detectMediaType up to its first await: a data URL is analysed at once,
\* for any other URL the HEAD probe is issued.
beginDetect(r) ==
    IF StartsWith(r.httpUrl, DataScheme)
    THEN detected([r EXCEPT !.via = "data"], detectDataUrl(r.httpUrl))
    ELSE [r EXCEPT !.pc = "head", !.ops = @ \cup {"head"}]

\* Mutant of lookupCache: a lookup evicts every expired entry.
lookupCache_EvictAllExpired(k) ==
    [j \in {i \in DOMAIN mediaCache : isFresh(mediaCache[i], now)} |-> mediaCache[j]]

\* The cache after the lookup of lines 32-40: the entry of the key is deleted
\* when it is there and no longer fresh.
lookupCache(k) ==
    IF MapHas(mediaCache, k) /\ ~isFresh(mediaCache[k], now)
    THEN MapDelete(mediaCache, k)
    ELSE mediaCache

Start(p, image, limit) ==
    /\ Done(p)
    /\ calls < limit
    /\ calls' = calls + 1
    /\ LET r0 == [Idle EXCEPT !.image = image, !.callId = calls + 1]
           k  == cacheKeyOf(image)
           r1 == [r0 EXCEPT !.cacheKey = k, !.httpUrl = convertIpfsToHttp(image)]
       IN  IF image = <<>>
           THEN /\ req' = With(p, [r0 EXCEPT !.pc = "threw",
                                              !.error = <<"No media URL provided">>])
                /\ UNCHANGED mediaCache
           ELSE /\ mediaCache' = lookupCache(k)
                /\ req' = With(p,
                      IF MapHas(mediaCache, k) /\ isFresh(mediaCache[k], now)
                      THEN [r1 EXCEPT !.pc = "returned", !.lookup = "hit",
                                      !.result = <<mediaCache[k].data>>]
                      ELSE IF MapHas(mediaCache, k)
                      THEN beginDetect([r1 EXCEPT !.lookup = "expired"])
                      ELSE beginDetect([r1 EXCEPT !.lookup = "miss"]))
    /\ UNCHANGED <<now, ticks, tempFiles, fileStats, sweep, stored, prompt>>

----------------------------------------------------------------------------
(* detectMediaType, lines 45-83: the two probes.                           *)

\* Outcomes of a fetch() call: a response with an ok status, a response
\* with another status, or a rejection.
FetchOutcomes(url) == IF IsFetchableUrl(url) THEN {"ok", "notok", "throw"} ELSE {"throw"}

\* The catch block of lines 76-82: the descriptor comes from the URL alone.
fallbackToUrl(r) == detected([r EXCEPT !.via = "extension"], analyzeFromUrl(r.httpUrl))

HeadSettles(p, outcome, headers) ==
    LET r0 == req[p]
        r  == [r0 EXCEPT !.probes = Append(@, [probe |-> "head", outcome |-> outcome])]
    IN  /\ r0.pc = "head"
        /\ outcome \in FetchOutcomes(r.httpUrl)
        /\ req' = With(p,
              CASE outcome = "ok"    -> detected([r EXCEPT !.via = "head"],
                                                 detectFromHead(headers, r.httpUrl))
                [] outcome = "notok" -> [r EXCEPT !.pc = "get", !.ops = @ \cup {"get"}]
                [] outcome = "throw" -> fallbackToUrl(r))
        /\ UNCHANGED <<now, ticks, calls, mediaCache, tempFiles, fileStats, sweep, stored, prompt>>

GetSettles(p, outcome, headers) ==
    LET r0 == req[p]
        r  == [r0 EXCEPT !.probes = Append(@, [probe |-> "get", outcome |-> outcome])]
    IN  /\ r0.pc = "get"
        /\ outcome \in FetchOutcomes(r.httpUrl)
        /\ req' = With(p,
              IF outcome = "throw"
              THEN fallbackToUrl(r)
              ELSE detected([r EXCEPT !.via = "get"],
                            detectFromRangedGet(headers, r.httpUrl)))
        /\ UNCHANGED <<now, ticks, calls, mediaCache, tempFiles, fileStats, sweep, stored, prompt>>

----------------------------------------------------------------------------
(* processNftMedia, lines 44-73, and downloadMedia, lines 186-257.         *)

\* downloadMedia has checked the size and computed the path: writeFile is
\* issued.  n is the byte length of the buffer.
beginWrite(r, n) ==
    [r EXCEPT !.pc = "write",
              !.download = <<[path |-> [uuid |-> uuidv4(r.callId, 1),
                                        tail |-> <<".">> \o safeExtensionOf(r.httpUrl)],
                              size |-> n,
                              buffer |-> r.buffer]>>,
              !.buffer = <<>>]

TooLargeMessage == <<"Media file too large. Maximum size is 20MB.">>

\* Mutant of downloadFailed: the failed download is replaced by a placeholder
\* raster, as a failed conversion of an image is.
downloadFailed_Placeholder(r, error) ==
    [r EXCEPT !.fetchFailed = TRUE, !.pc = "optimize", !.frame = "gif_placeholder"]

\* downloadMedia rejects.  Every process* function awaits it before its try
\* block, so the rejection reaches the catch of processNftMedia directly.
downloadFailed(r, error) == throwWrapped([r EXCEPT !.fetchFailed = TRUE], error)

\* The buffer of n bytes is there: the security check, then the write.
checkAndWrite(r, n) ==
    IF tooLarge(n) THEN downloadFailed([r EXCEPT !.fetched = <<n>>], TooLargeMessage)
    ELSE beginWrite([r EXCEPT !.fetched = <<n>>], n)

\* downloadMedia(url) up to its first await: a data URL is decoded at once,
\* for any other URL the request is issued.
beginDownload(r) ==
    LET decoded == decodeDataUrl(r.httpUrl)
        buffer  == arrayBufferOf(decoded, r.pooled)
    IN  IF StartsWith(r.httpUrl, DataScheme)
        THEN IF ~decoded.ok THEN downloadFailed(r, decoded.error)
             ELSE checkAndWrite([r EXCEPT !.buffer = <<buffer>>], buffer.byteLength)
        ELSE [r EXCEPT !.pc = "fetch", !.ops = @ \cup {"download"}]

\* Mutant of processByCategory: the default case is handled as an image.
processByCategory_DefaultStatic(r) == beginDownload(r)

\* The switch of line 50: every known category starts with downloadMedia in
\* its process* function, the default case throws.
processByCategory(r) ==
    LET info == r.mediaInfo[1]
    IN  IF info.category \in {"static_image", "animated_image", "vector_image", "video", "audio"}
        THEN beginDownload(r)
        ELSE throwWrapped(r, <<"Unsupported media type: ">> \o info.mimeType)

\* processNftMedia resumes after await detectMediaType.  pooled tells
\* whether the runtime decodes a data URL into its allocation pool.
Dispatch(p, pooled) ==
    LET r == req[p]
    IN  /\ r.pc = "detected"
        /\ req' = With(p, processByCategory(
                             [r EXCEPT !.pooled = pooled /\ StartsWith(r.httpUrl, DataScheme)]))
        /\ UNCHANGED <<now, ticks, calls, mediaCache, tempFiles, fileStats, sweep, stored, prompt>>

\* The message of the error a fetch() that cannot complete rejects with.
NetworkErrorMessage == <<"request failed: network error">>

\* The fetch of line 211 and response.arrayBuffer() settle.
FetchSettles(p, outcome, status, byteLength) ==
    LET r == req[p]
    IN  /\ r.pc = "fetch"
        /\ outcome \in FetchOutcomes(convertIpfsToHttp(r.httpUrl))
        /\ req' = With(p,
              CASE outcome = "throw" -> downloadFailed(r, NetworkErrorMessage)
                [] outcome = "notok" -> downloadFailed(r, <<"Failed to download media: ", status>>)
                [] outcome = "ok"    ->
                     checkAndWrite([r EXCEPT !.buffer = <<[byteLength |-> byteLength,
                                                          exact |-> TRUE,
                                                          decoded |-> <<>>]>>],
                                   byteLength))
        /\ UNCHANGED <<now, ticks, calls, mediaCache, tempFiles, fileStats, sweep, stored, prompt>>

\* fs.writeFile resolves: the file exists, downloadMedia returns and the
\* process* function enters its try block and awaits its first conversion.
WriteSettles(p) ==
    LET r    == req[p]
        info == r.mediaInfo[1]
    IN  /\ r.pc = "write"
        /\ writeFile(r.download[1].path)
        /\ req' = With(p,
              IF info.category = "static_image"
              THEN [r EXCEPT !.pc = "optimize", !.frame = "download", !.ops = @ \cup {"writeFile"}]
              ELSE [r EXCEPT !.pc = "convert", !.ops = @ \cup {"writeFile"}])
        /\ UNCHANGED <<now, ticks, calls, mediaCache, stored, sweep, prompt>>

----------------------------------------------------------------------------
(* The converters.                                                         *)

\* Mutant of extractGifFrame: the failure of sharp is not caught.
extractGifFrame_Rethrow(sharpOk) == IF sharpOk THEN "first_frame" ELSE "thrown"

\* extractGifFrame: a failure of sharp is caught inside the converter, which
\* then renders its placeholder.  The value names the raster returned.
extractGifFrame(sharpOk) == IF sharpOk THEN "first_frame" ELSE "gif_placeholder"

\* Mutant of rasterizeSvg: the failure of sharp is not caught.
rasterizeSvg_Rethrow(sharpOk) == IF sharpOk THEN "rasterized" ELSE "thrown"

\* rasterizeSvg: the same, with the placeholder of its own.
rasterizeSvg(sharpOk) == IF sharpOk THEN "rasterized" ELSE "svg_placeholder"

\* await of a converter in a process* function: the raster, or the
\* rejection, which passes through the finally block.
converted(r, raster) ==
    IF raster = "thrown"
    THEN [r EXCEPT !.pc = "cleanup", !.error = <<"Input file contains unsupported image format">>]
    ELSE [r EXCEPT !.pc = "optimize", !.frame = raster]

ConvertImage(p, sharpOk) ==
    LET r    == req[p]
        info == r.mediaInfo[1]
        r1   == [r EXCEPT !.ops = @ \cup {"convert"}, !.convertFailed = ~sharpOk]
    IN  /\ r.pc = "convert"
        /\ info.category \in {"animated_image", "vector_image"}
        \* sharp(filePath) cannot read a file that is not there
        /\ (info.category = "animated_image" /\ r.download[1].path \notin tempFiles) => ~sharpOk
        /\ req' = With(p, IF info.category = "animated_image"
                          THEN converted(r1, extractGifFrame(sharpOk))
                          ELSE converted(r1, rasterizeSvg(sharpOk)))
        /\ UNCHANGED <<now, ticks, calls, mediaCache, tempFiles, fileStats, sweep, stored, prompt>>

\* The output path of extractVideoFrame / generateSpectrogram.
ffmpegOutputPath(r) ==
    [uuid |-> uuidv4(r.callId, 2),
     tail |-> IF r.mediaInfo[1].category = "video"
              THEN <<"_", "f", "r", "a", "m", "e", ".", "p", "n", "g">>
              ELSE <<"_", "s", "p", "e", "c", "t", "r", "o", "g", "r", "a", "m", ".", "p", "n", "g">>]

ffmpegErrorMessage(category) ==
    IF category = "video"
    THEN <<"Video frame extraction failed: ", "ffmpeg exited with code 1">>
    ELSE <<"Spectrogram generation failed: ", "ffmpeg exited with code 1">>

\* Mutant of onFfmpegError: the handler resolves with a placeholder raster,
\* as the image converters do.
onFfmpegError_Placeholder(r) == [r EXCEPT !.pc = "optimize", !.frame = "gif_placeholder"]

\* What the 'error' handler of extractVideoFrame / generateSpectrogram
\* does: it rejects, and leaves the output path as ffmpeg left it.
onFfmpegError(r) ==
    [r EXCEPT !.pc = "cleanup", !.error = ffmpegErrorMessage(r.mediaInfo[1].category)]

\* ffmpeg runs and emits 'end' or 'error'; written tells whether it created
\* the output file before it stopped.
FfmpegSettles(p, event, written) ==
    LET r    == req[p]
        info == r.mediaInfo[1]
        out  == ffmpegOutputPath(r)
        r1   == [r EXCEPT !.outputPath = <<out>>, !.ops = @ \cup {"convert"},
                          !.convertFailed = (event = "error")]
    IN  /\ r.pc = "convert"
        /\ info.category \in {"video", "audio"}
        /\ event \in {"end", "error"}
        /\ IF written THEN writeFile(out) ELSE UNCHANGED <<tempFiles, fileStats>>
        /\ req' = With(p,
              IF event = "end" THEN [r1 EXCEPT !.pc = "readframe"] ELSE onFfmpegError(r1))
        /\ UNCHANGED <<now, ticks, calls, mediaCache, stored, sweep, prompt>>

\* The message of the error readFile rejects with.
ReadFrameMessage == <<"ENOENT: no such file or directory">>

\* The 'end' handler: readFile, then unlink of the output path.
ReadFrame(p) ==
    LET r   == req[p]
        out == r.outputPath[1]
    IN  /\ r.pc = "readframe"
        /\ IF out \in tempFiles
           THEN /\ unlink(out)
                /\ req' = With(p, [r EXCEPT !.pc = "optimize",
                        !.frame = IF r.mediaInfo[1].category = "video"
                                  THEN "video_frame" ELSE "spectrogram"])
           ELSE /\ UNCHANGED <<tempFiles, fileStats>>
                /\ req' = With(p, [r EXCEPT !.pc = "cleanup", !.convertFailed = TRUE,
                        !.error = ReadFrameMessage])
        /\ UNCHANGED <<now, ticks, calls, mediaCache, stored, sweep, prompt>>

----------------------------------------------------------------------------
(* The optimizer step of each process* function, its finally block, and    *)
(* the end of processNftMedia (lines 75-88).                               *)

processingTypeOf(category) ==
    CASE category = "static_image"   -> "optimized_static"
      [] category = "animated_image" -> "extracted_frame"
      [] category = "vector_image"   -> "rasterized_vector"
      [] category = "video"          -> "video_frame"
      [] category = "audio"          -> "audio_spectrogram"

White == [r |-> 255, g |-> 255, b |-> 255, alpha |-> 1]
Black == [r |-> 0, g |-> 0, b |-> 0, alpha |-> 1]

\* Mutant of optimizeOptions: every category is given the white background.
optimizeOptions_AllWhite(category) ==
    [width |-> 256, height |-> 256, fit |-> "inside", withoutEnlargement |-> TRUE,
     background |-> White, quality |-> 80]

\* The arguments of sharp(...).resize(...).jpeg(...) in the process*
\* function of the category.
optimizeOptions(category) ==
    [width |-> 256, height |-> 256, fit |-> "inside", withoutEnlargement |-> TRUE,
     background |-> IF category \in {"video", "audio"} THEN Black ELSE White,
     quality |-> 80]

\* Mutant of processedMedia: a natively supported image is handed on as it
\* was downloaded.
processedMedia_NativeAsIs(r) ==
    [buffer         |-> [from |-> r.frame, call |-> r.callId,
                         options |-> optimizeOptions(r.mediaInfo[1].category)],
     mimeType       |-> IF r.mediaInfo[1].isSupported THEN r.mediaInfo[1].mimeType ELSE ImageJpeg,
     dimensions     |-> [width |-> 256, height |-> 256],
     originalType   |-> r.mediaInfo[1].mimeType,
     processingType |-> processingTypeOf(r.mediaInfo[1].category)]

\* The object a process* function returns.  buffer names the raster it was
\* encoded from, the call that encoded it and the arguments of the encoding.
processedMedia(r) ==
    [buffer         |-> [from |-> r.frame, call |-> r.callId,
                         options |-> optimizeOptions(r.mediaInfo[1].category)],
     mimeType       |-> ImageJpeg,
     dimensions     |-> [width |-> 256, height |-> 256],
     originalType   |-> r.mediaInfo[1].mimeType,
     processingType |-> processingTypeOf(r.mediaInfo[1].category)]

\* Rasters that sharp itself has just encoded as PNG are always readable.
EncodedBySharp == {"first_frame", "gif_placeholder", "rasterized", "svg_placeholder"}

\* sharp(...).resize(256, 256, ...).jpeg({quality: 80}).toBuffer() settles.
OptimizeSettles(p, ok) ==
    LET r == req[p]
    IN  /\ r.pc = "optimize"
        /\ r.frame \in EncodedBySharp => ok
        /\ req' = With(p,
              IF ok
              THEN [r EXCEPT !.pc = "cleanup", !.result = <<processedMedia(r)>>,
                             !.ops = @ \cup {"optimize"}]
              ELSE [r EXCEPT !.pc = "cleanup",
                             !.error = <<"Input buffer contains unsupported image format">>,
                             !.ops = @ \cup {"optimize"}])
        /\ UNCHANGED <<now, ticks, calls, mediaCache, tempFiles, fileStats, sweep, stored, prompt>>

\* finally { await download.cleanup() }: unlink of the downloaded file.
Cleanup(p) ==
    LET r == req[p]
    IN  /\ r.pc = "cleanup"
        /\ unlink(r.download[1].path)
        /\ req' = With(p, [r EXCEPT !.pc = "settle"])
        /\ UNCHANGED <<now, ticks, calls, mediaCache, stored, sweep, prompt>>

\* Mutant of cacheResult: an entry that is already there is kept.
cacheResult_FirstWins(r, t) ==
    IF MapHas(mediaCache, r.cacheKey) THEN mediaCache
    ELSE MapSet(mediaCache, r.cacheKey, [data |-> r.result[1], timestamp |-> t])

\* What processNftMedia does with the value of the process* function.
cacheResult(r, t) == MapSet(mediaCache, r.cacheKey, [data |-> r.result[1], timestamp |-> t])

\* Mutant of cacheOnFailure: the failure is remembered under the key.
cacheOnFailure_Remembered(r, t) ==
    MapSet(mediaCache, r.cacheKey, [data |-> [error |-> r.error], timestamp |-> t])

\* The catch of lines 83-88 throws the wrapped error; the cache is as it was.
cacheOnFailure(r, t) == mediaCache

\* The process* promise has settled: processNftMedia caches and returns the
\* result, or catches the rejection and throws the wrapped error.
Settle(p) ==
    LET r == req[p]
    IN  /\ r.pc = "settle"
        /\ IF r.error # <<>>
           THEN /\ req' = With(p, throwWrapped(r, r.error))
                /\ mediaCache' = cacheOnFailure(r, now)
                /\ UNCHANGED stored
           ELSE /\ mediaCache' = cacheResult(r, now)
                /\ stored' = MapSet(stored, r.cacheKey, [data |-> r.result[1], timestamp |-> now])
                /\ req' = With(p, [r EXCEPT !.pc = "returned", !.download = <<>>,
                                             !.outputPath = <<>>])
        /\ UNCHANGED <<now, ticks, calls, tempFiles, fileStats, sweep, prompt>>

\* Mutant of clearMediaCache: only the expired entries are removed.
clearMediaCache_OnlyExpired ==
    /\ mediaCache' = [k \in {j \in DOMAIN mediaCache : isFresh(mediaCache[j], now)} |->
                        mediaCache[k]]
    /\ stored' = EmptyMap
    /\ req' = [p \in DOMAIN req |->
                 IF Done(p) THEN req[p] ELSE [req[p] EXCEPT !.cleared = TRUE]]
    /\ UNCHANGED <<now, ticks, calls, tempFiles, fileStats, sweep, prompt>>

\* Lines 349-351: mediaCache.clear().  The calls in flight remember that
\* the cache was cleared under them.
clearMediaCache ==
    /\ mediaCache' = EmptyMap
    /\ stored' = EmptyMap
    /\ req' = [p \in DOMAIN req |->
                 IF Done(p) THEN req[p] ELSE [req[p] EXCEPT !.cleared = TRUE]]
    /\ UNCHANGED <<now, ticks, calls, tempFiles, fileStats, sweep, prompt>>

Tick(d) ==
    /\ ticks < MaxTicks
    /\ ticks' = ticks + 1
    /\ now' = now + d
    /\ UNCHANGED <<calls, mediaCache, tempFiles, fileStats, sweep, req, stored, prompt>>

\* The steps of the calls of the request slots P, with images and response
\* headers drawn from the given sets and at most limit calls.
Pipeline(P, imgs, hdrs, lens, limit) ==
    \/ \E p \in P, image \in imgs : Start(p, image, limit)
    \/ \E p \in P, o \in {"ok", "notok", "throw"}, h \in hdrs : HeadSettles(p, o, h)
    \/ \E p \in P, o \in {"ok", "notok", "throw"}, h \in hdrs : GetSettles(p, o, h)
    \/ \E p \in P, pooled \in BOOLEAN : Dispatch(p, pooled)
    \/ \E p \in P, o \in {"ok", "notok", "throw"}, s \in {"404"}, n \in lens :
          FetchSettles(p, o, s, n)
    \/ \E p \in P : WriteSettles(p)
    \/ \E p \in P, ok \in BOOLEAN : ConvertImage(p, ok)
    \/ \E p \in P, e \in {"end", "error"}, w \in BOOLEAN : FfmpegSettles(p, e, w)
    \/ \E p \in P : ReadFrame(p)
    \/ \E p \in P, ok \in BOOLEAN : OptimizeSettles(p, ok)
    \/ \E p \in P : Cleanup(p)
    \/ \E p \in P : Settle(p)

\* Repeated calls against the shared cache, with the clock and the
\* administrative clear.
Next ==
    \/ Pipeline(Requests, CachedImages, CachedHeaders, CachedBodyLengths, MaxCalls)
    \/ clearMediaCache
    \/ \E d \in TickSteps : Tick(d)

Spec == Init /\ [][Next]_vars

\* Calls over the whole range of images, headers and outcomes.
NextWide == Pipeline(Requests, Images, ResponseHeaders, BodyLengths, MaxWideCalls)

SpecWide == Init /\ [][NextWide]_vars

\* Repeated calls for the cached images whose responses carry any of the
\* headers, so that assets of every category are cached and served again.
NextRepeat == Pipeline(Requests, CachedImages, ResponseHeaders, CachedBodyLengths, MaxCalls)

SpecRepeat == Init /\ [][NextRepeat]_vars

\* Detection alone, on the locators of DetectImages: processNftMedia up to
\* the point where detectMediaType has returned.
NextDetect ==
    \/ \E p \in Requests, image \in DetectImages : Start(p, image, MaxWideCalls)
    \/ \E p \in Requests, o \in {"ok", "notok", "throw"}, h \in ResponseHeaders :
          HeadSettles(p, o, h)
    \/ \E p \in Requests, o \in {"ok", "notok", "throw"}, h \in ResponseHeaders :
          GetSettles(p, o, h)

SpecDetect == Init /\ [][NextDetect]_vars

\* Calls on inline data URLs: no request leaves the process.
NextData ==
    \/ \E p \in Requests, image \in DataImages : Start(p, image, MaxCalls)
    \/ \E p \in Requests, pooled \in BOOLEAN : Dispatch(p, pooled)
    \/ \E p \in Requests : WriteSettles(p)
    \/ \E p \in Requests, ok \in BOOLEAN : ConvertImage(p, ok)
    \/ \E p \in Requests, e \in {"end", "error"}, w \in BOOLEAN : FfmpegSettles(p, e, w)
    \/ \E p \in Requests : ReadFrame(p)
    \/ \E p \in Requests, ok \in BOOLEAN : OptimizeSettles(p, ok)
    \/ \E p \in Requests : Cleanup(p)
    \/ \E p \in Requests : Settle(p)

SpecData == Init /\ [][NextData]_vars

----------------------------------------------------------------------------
(* cleanupTempFiles, lines 395-414, run every hour by line 417.            *)

oneHour == 60 * 60 * 1000

\* The path of the c-th entry that appears in TEMP_DIR.
SweepPath(c) == [uuid |-> uuidv4(c, 1), tail |-> <<".">> \o ExtBin]

\* The orders in which readdir may list the entries S.
Listings(S) ==
    {l \in [1..Cardinality(S) -> S] : \A i, j \in 1..Cardinality(S) : l[i] = l[j] => i = j}

\* An entry appears in TEMP_DIR: the temporary file a request writes, or an
\* entry on which fs.stat rejects.
EntryAppears(readable) ==
    /\ calls < MaxSweepFiles
    /\ calls' = calls + 1
    /\ tempFiles' = tempFiles \cup {SweepPath(calls')}
    /\ fileStats' = [f \in tempFiles' |->
                       IF f = SweepPath(calls') THEN [ok |-> readable, mtime |-> now]
                       ELSE fileStats[f]]
    /\ UNCHANGED <<now, ticks, mediaCache, sweep, req, stored, prompt>>

\* The request that wrote f releases it (the cleanup of line 263).
EntryReleased(f) ==
    /\ f \in tempFiles
    /\ fileStats[f].ok
    /\ unlink(f)
    /\ UNCHANGED <<now, ticks, calls, mediaCache, sweep, req, stored, prompt>>

\* Line 417: the interval timer calls cleanupTempFiles.
SweepFires ==
    /\ sweep.pc = "idle"
    /\ sweep' = [NoSweep EXCEPT !.pc = "readdir"]
    /\ UNCHANGED <<now, ticks, calls, mediaCache, tempFiles, fileStats, req, stored, prompt>>

\* The frame of the sweep before the next file of the listing, or at its end.
nextFile(w, files) ==
    IF files = <<>> THEN NoSweep ELSE [w EXCEPT !.pc = "stat", !.files = files]

\* Lines 397-398: readdir resolves with a listing of TEMP_DIR, which exists
\* since line 21, and Date.now() is read once.
ReaddirSettles(listing) ==
    /\ sweep.pc = "readdir"
    /\ listing \in Listings(tempFiles)
    /\ sweep' = nextFile([sweep EXCEPT !.now = now], listing)
    /\ UNCHANGED <<now, ticks, calls, mediaCache, tempFiles, fileStats, req, stored, prompt>>

\* Lines 403-405: stat of the next file.  A rejection leaves the loop for
\* the catch of line 409.
StatSettles ==
    LET file == Head(sweep.files)
    IN  /\ sweep.pc = "stat"
        /\ sweep' = IF file \notin tempFiles \/ ~fileStats[file].ok THEN NoSweep
                    ELSE IF sweep.now - fileStats[file].mtime > oneHour
                    THEN [sweep EXCEPT !.pc = "unlink"]
                    ELSE nextFile(sweep, Tail(sweep.files))
        /\ UNCHANGED <<now, ticks, calls, mediaCache, tempFiles, fileStats, req, stored, prompt>>

\* Line 406: unlink, its rejection ignored.
UnlinkSettles ==
    /\ sweep.pc = "unlink"
    /\ unlink(Head(sweep.files))
    /\ sweep' = nextFile(sweep, Tail(sweep.files))
    /\ UNCHANGED <<now, ticks, calls, mediaCache, req, stored, prompt>>

\* The hours over which the sweeps are followed.
SweepSteps == {1, oneHour}

NextSweep ==
    \/ \E readable \in BOOLEAN : EntryAppears(readable)
    \/ \E f \in tempFiles : EntryReleased(f)
    \/ SweepFires
    \/ \E listing \in Listings(tempFiles) : ReaddirSettles(listing)
    \/ StatSettles
    \/ UnlinkSettles
    \/ \E d \in SweepSteps : Tick(d)

\* The timer fires again and again, and every await of a sweep settles.
SpecSweep ==
    /\ Init
    /\ [][NextSweep]_vars
    /\ WF_vars(SweepFires)
    /\ WF_vars(\E listing \in Listings(tempFiles) : ReaddirSettles(listing))
    /\ WF_vars(StatSettles)
    /\ WF_vars(UnlinkSettles)

----------------------------------------------------------------------------
(* generateEnhancedPrompt, lines 304-344.  A prompt is the sequence of the *)
(* pieces of text it is made of.                                           *)

\* A JavaScript value is truthy: of the values drawn here, an object, a
\* non-empty array and a non-empty string are.
truthy(v) ==
    CASE v.type = "string" -> v.text # ""
      [] v.type \in {"object", "array"} -> TRUE
      [] OTHER -> FALSE

\* The filter of line 313, on one element of nft.attributes.
qualifies(attr) ==
    /\ truthy(attr)
    /\ attr.type = "object"
    /\ truthy(attr.key)
    /\ truthy(attr.value)

\* Array.prototype.join of pieces of text.
RECURSIVE Join(_, _)
Join(list, separator) ==
    IF list = <<>> THEN <<>>
    ELSE IF Len(list) = 1 THEN list[1]
    ELSE list[1] \o <<separator>> \o Join(Tail(list), separator)

\* Lines 307-308.
basePrompt(nft) ==
    <<"Analyze the attached image of the NFT.\nThe NFT is named \"", nft.name,
      "\" and has the Token ID \"", nft.tokenId,
      "\".\nIts original description is: \"",
      IF nft.description # "" THEN nft.description ELSE "No description provided",
      "\".">>

TraitsHeader == "\n\nThis NFT has the following traits:\n"

\* Lines 311-318.
traitsString(nft) ==
    LET attributes == nft.attributes
        kept       == SelectSeq(attributes.items, qualifies)
        traitsList == Join([i \in 1..Len(kept) |->
                              <<"- ", kept[i].key.text, ": ", kept[i].value.text>>], "\n")
    IN  IF truthy(attributes) /\ attributes.type = "array" /\ Len(attributes.items) > 0
        THEN <<TraitsHeader>> \o traitsList
        ELSE <<>>

\* Lines 321-338: the note of each processing type, none for any other.
processingContext(processingType) ==
    CASE processingType = "extracted_frame" ->
             <<"\n\nNote: This image shows a single frame extracted from an animated NFT (GIF). The original was animated, but you are seeing a representative static frame.">>
      [] processingType = "video_frame" ->
             <<"\n\nNote: This image shows a frame extracted from a video NFT. The original was a video file, but you are seeing a representative still frame.">>
      [] processingType = "rasterized_vector" ->
             <<"\n\nNote: This image is a rasterized version of an original SVG vector graphic. The original had scalable vector properties.">>
      [] processingType = "audio_spectrogram" ->
             <<"\n\nNote: This image shows a visual spectrogram representation of an audio NFT. The colors and patterns represent the frequency content and intensity of the original audio.">>
      [] processingType = "optimized_static" ->
             <<"\n\nNote: This is a static image NFT, optimized for analysis.">>
      [] OTHER -> <<>>

PromptInstructions ==
    "\n\nBased on the VISUALS in the image, its traits, and the context provided, write a new, short, evocative, and artistic paragraph that captures the mood, theme, and aesthetic of this specific piece. Focus on what you SEE and the provided traits. Do not repeat the original description or list the traits. Be imaginative and consider the original format when relevant. Do not use markdown, titles, or any special formatting. Respond with only the text of the description itself."

generateEnhancedPrompt(nft, media) ==
    basePrompt(nft) \o traitsString(nft) \o processingContext(media.processingType)
        \o <<PromptInstructions>>

\* The values drawn for a key or a value of an attribute, absent included.
Str(text) == [type |-> "string", text |-> text]
Undefined == [type |-> "undefined"]
AttributeTexts == {Undefined, Str(""), Str("Eyes"), Str("Blue")}

\* The elements drawn for nft.attributes: null, a string, and objects.
AttributeEntries ==
    {[type |-> "null"], Str("Hat")}
      \cup {[type |-> "object", key |-> k, value |-> v] : k, v \in AttributeTexts}

MaxAttributes == 2

\* nft.attributes: absent, a string, or an array of up to MaxAttributes.
AttributeValues ==
    {[type |-> "undefined", items |-> <<>>], [type |-> "string", text |-> "Eyes", items |-> <<>>]}
      \cup {[type |-> "array", items |-> items] :
               items \in UNION {[1..n -> AttributeEntries] : n \in 0..MaxAttributes}}

ProcessingTypes ==
    {"extracted_frame", "video_frame", "rasterized_vector", "audio_spectrogram",
     "optimized_static", "unknown"}

\* index.js calls generateEnhancedPrompt with the NFT of the request and the
\* result of processNftMedia.
Compose(attributes, description, processingType) ==
    LET nft == [name |-> "Ape", tokenId |-> "7", description |-> description,
                attributes |-> attributes]
        media == [processingType |-> processingType]
    IN  /\ prompt' = <<[nft |-> nft, processedMedia |-> media,
                        fullPrompt |-> generateEnhancedPrompt(nft, media)]>>
        /\ UNCHANGED <<now, ticks, calls, mediaCache, tempFiles, fileStats, sweep, req, stored>>

NextPrompt ==
    \E attributes \in AttributeValues, description \in {"", "An ape."},
       processingType \in ProcessingTypes :
        Compose(attributes, description, processingType)

SpecPrompt == Init /\ [][NextPrompt]_vars

\* Two calls in flight for the same image, interleaved at their awaits.
InitShared ==
    /\ now = 0
    /\ ticks = 0
    /\ calls = 0
    /\ mediaCache = EmptyMap
    /\ tempFiles = {}
    /\ fileStats = EmptyMap
    /\ sweep = NoSweep
    /\ prompt = <<>>
    /\ req = [p \in Slots |-> Idle]
    /\ stored = EmptyMap

NextShared == Pipeline(Slots, SharedImages, SharedHeaders, SharedBodyLengths, MaxSharedCalls)

SpecShared == InitShared /\ [][NextShared]_vars

----------------------------------------------------------------------------
(* Properties.                                                             *)

\* The step in which slot p starts a call (the lookup of lines 32-40).
Lookup(p) == calls' = calls + 1 /\ req'[p].callId = calls'

FilesOf(c) == {f \in tempFiles : f.uuid[1] = c}

\* C1: while the last entry set for a key since the last clear is younger
\* than one hour, a call for that image returns the very asset of that entry
\* at its lookup, having probed, downloaded, converted and written nothing.
C1_CacheHit ==
    [][\A p \in Requests :
          LET k == req'[p].cacheKey
          IN  (Lookup(p) /\ req'[p].image # <<>> /\ MapHas(stored, k)
                 /\ now < stored[k].timestamp + CACHE_DURATION)
              => /\ req'[p].pc = "returned"
                 /\ req'[p].result = <<stored[k].data>>
                 /\ req'[p].ops = {}
                 /\ tempFiles' = tempFiles
                 /\ mediaCache' = mediaCache]_vars

\* A call has been served from an entry that is one millisecond short of an hour old.
C1_Witness ==
    \E p \in Requests :
        /\ req[p].pc = "returned" /\ req[p].lookup = "hit" /\ req[p].ops = {}
        /\ MapHas(stored, req[p].cacheKey)
        /\ req[p].result = <<stored[req[p].cacheKey].data>>
        /\ now - stored[req[p].cacheKey].timestamp = CACHE_DURATION - 1

\* C2: a lookup that finds an entry aged one hour or more does not return
\* its asset: it deletes the entry, so that the size reported by
\* getCacheStats drops by one in that step, and goes on as on a miss.
C2_CacheExpiry ==
    [][\A p \in Requests :
          LET k == req'[p].cacheKey
          IN  (Lookup(p) /\ req'[p].image # <<>> /\ MapHas(mediaCache, k)
                 /\ now - mediaCache[k].timestamp >= CACHE_DURATION)
              => /\ req'[p].pc \in {"head", "detected"}
                 /\ req'[p].result = <<>>
                 /\ ~MapHas(mediaCache', k)
                 /\ getCacheStats'.size = getCacheStats.size - 1
                 /\ req'[p].ops \subseteq {"head"}]_vars

\* A lookup has just evicted an entry that was exactly one hour old.
C2_Witness ==
    \E p \in Requests :
        /\ req[p].lookup = "expired" /\ req[p].pc = "head"
        /\ MapHas(stored, req[p].cacheKey)
        /\ now - stored[req[p].cacheKey].timestamp = CACHE_DURATION
        /\ ~MapHas(mediaCache, req[p].cacheKey)

CacheWrittenBy(c) == \E k \in DOMAIN mediaCache : mediaCache[k].data.buffer.call = c

HasInfo(p) == req[p].mediaInfo # <<>>
CategoryOf(p) == req[p].mediaInfo[1].category

\* C3: when a call has returned or thrown, no temporary file created for it
\* (the downloaded payload, the frame or spectrogram of a converter) exists.
C3_NoTempFileLeft ==
    \A p \in Requests : req[p].pc \in {"returned", "threw"} => FilesOf(req[p].callId) = {}

\* C4: a buffer of more than 20 MiB makes the call fail with the too-large
\* error before any file is written, a buffer of 20 MiB or less passes the
\* check, and no download object holds more than 20 MiB.
C4_PayloadCap ==
    \A p \in Requests :
        LET r == req[p]
        IN  /\ r.download # <<>> => r.download[1].size <= MAX_MEDIA_BYTES
            /\ (r.fetched # <<>> /\ r.fetched[1] >= MAX_MEDIA_BYTES + 1)
                  => /\ r.pc = "threw"
                     /\ r.error = wrapError(TooLargeMessage)
                     /\ r.download = <<>>
                     /\ "writeFile" \notin r.ops
                     /\ FilesOf(r.callId) = {}
            /\ (r.fetched # <<>> /\ r.fetched[1] <= MAX_MEDIA_BYTES)
                  => /\ r.error # wrapError(TooLargeMessage)
                     /\ r.pc = "write" \/ "writeFile" \in r.ops

\* A body of exactly 20 MiB + 1 byte has been refused.
C4_Witness ==
    \E p \in Requests :
        /\ req[p].fetched = <<MAX_MEDIA_BYTES + 1>>
        /\ req[p].pc = "threw"
        /\ req[p].error = wrapError(TooLargeMessage)

\* C5: every call that throws throws the wrapped error, whose message
\* starts with 'Failed to process media' and goes on with the cause.
C5_SingleWrappedFailure ==
    \A p \in Requests :
        req[p].pc = "threw"
          => Len(req[p].error) >= 2 /\ req[p].error[1] = "Failed to process media: "

\* C6: once a descriptor of category unknown is dispatched, the call has
\* thrown the wrapped unsupported-type error, and it has downloaded nothing,
\* written no file and set no cache entry.
C6_UnknownFailsImmediately ==
    \A p \in Requests :
        LET r == req[p]
        IN  (HasInfo(p) /\ CategoryOf(p) = "unknown" /\ r.pc # "detected")
              => /\ r.pc = "threw"
                 /\ r.error = wrapError(<<"Unsupported media type: ">> \o r.mediaInfo[1].mimeType)
                 /\ r.ops \subseteq {"head", "get"}
                 /\ r.fetched = <<>>
                 /\ FilesOf(r.callId) = {}
                 /\ ~CacheWrittenBy(r.callId)

\* A call detected as application/octet-stream has thrown.
C6_Witness ==
    \E p \in Requests :
        /\ HasInfo(p) /\ req[p].mediaInfo[1].mimeType = OctetStream
        /\ CategoryOf(p) = "unknown"
        /\ req[p].pc = "threw"

\* C7: whatever the probes did and whatever the URL, once detection has
\* settled the call holds a descriptor: detectMediaType has not rejected.
C7_DetectNeverRaises ==
    \A p \in Requests :
        (req[p].lookup \in {"miss", "expired"} /\ req[p].pc \notin {"head", "get"})
          => HasInfo(p)

\* Detection of a URL that new URL() refuses, after the HEAD probe failed.
C7_Witness ==
    \E p \in Requests :
        /\ req[p].httpUrl = LocRelative /\ "head" \in req[p].ops
        /\ ~ParseUrlPathname(req[p].httpUrl).ok
        /\ HasInfo(p) /\ req[p].mediaInfo[1].mimeType = OctetStream

\* The category table of the specification, by type and subtype.
C8_CategoryTable(mimeType) ==
    LET slash == IndexOf(mimeType, <<"/">>)
        type  == SubSeq(mimeType, 1, slash - 1)
    IN  CASE mimeType = ImageGif -> "animated_image"
          [] mimeType = ImageSvg -> "vector_image"
          [] mimeType \notin {ImageGif, ImageSvg} /\ slash > 0 /\ type = <<"i", "m", "a", "g", "e">>
               -> "static_image"
          [] slash > 0 /\ type = <<"v", "i", "d", "e", "o">> -> "video"
          [] slash > 0 /\ type = <<"a", "u", "d", "i", "o">> -> "audio"
          [] OTHER -> "unknown"

\* C8: the category of every descriptor is the table's category of its
\* mimeType, whichever branch of detection built it; so descriptors of
\* equal mimeType have equal category.
C8_CategoryOfMimeType ==
    /\ \A p \in Requests :
          HasInfo(p) => CategoryOf(p) = C8_CategoryTable(req[p].mediaInfo[1].mimeType)
    /\ \A p, q \in Requests :
          (HasInfo(p) /\ HasInfo(q) /\ req[p].mediaInfo[1].mimeType = req[q].mediaInfo[1].mimeType)
            => CategoryOf(p) = CategoryOf(q)

\* A GIF descriptor built by the ranged GET branch.
C8_Witness ==
    \E p \in Requests :
        /\ HasInfo(p) /\ "get" \in req[p].ops
        /\ req[p].mediaInfo[1].mimeType = ImageGif
        /\ CategoryOf(p) = "animated_image"

\* C9: when the first-frame extraction of a fetched GIF fails, the call
\* carries no error, goes on with the placeholder raster, returns an
\* extracted_frame asset encoded from it, and that asset is the cache entry.
C9_AnimatedDegrades ==
    \A p \in Requests :
        LET r == req[p]
        IN  (HasInfo(p) /\ CategoryOf(p) = "animated_image" /\ r.convertFailed)
              => /\ r.error = <<>>
                 /\ r.frame = "gif_placeholder"
                 /\ r.pc \in {"optimize", "cleanup", "settle", "returned"}
                 /\ r.pc \in {"cleanup", "settle", "returned"}
                      => /\ r.result # <<>>
                         /\ r.result[1].processingType = "extracted_frame"
                         /\ r.result[1].buffer.from = "gif_placeholder"
                 /\ r.pc = "returned"
                      => /\ MapHas(mediaCache, r.cacheKey)
                         /\ mediaCache[r.cacheKey].data = r.result[1]

\* A GIF call whose extraction failed has returned.
C9_Witness ==
    \E p \in Requests :
        /\ HasInfo(p) /\ req[p].mediaInfo[1].mimeType = ImageGif
        /\ req[p].convertFailed /\ req[p].pc = "returned"
        /\ "download" \in req[p].ops

C11_Strategy(category) ==
    CASE category = "static_image"   -> "optimized_static"
      [] category = "animated_image" -> "extracted_frame"
      [] category = "vector_image"   -> "rasterized_vector"
      [] category = "video"          -> "video_frame"
      [] category = "audio"          -> "audio_spectrogram"
      [] OTHER -> "none"

\* C11: every asset a call returns, fresh or from the cache, is a JPEG
\* reported as 256 by 256 whose strategy is the table's strategy of the
\* category of its original type; and a call that returns a fresh asset has
\* run the optimizer, and a converter for every category but static_image,
\* whether or not the detected type is natively supported.
C11_UniformOutput ==
    \A p \in Requests :
        LET r == req[p]
        IN  /\ r.pc = "returned"
                  => /\ r.result # <<>>
                     /\ r.result[1].mimeType = ImageJpeg
                     /\ r.result[1].dimensions = [width |-> 256, height |-> 256]
                     /\ r.result[1].processingType
                           = C11_Strategy(C8_CategoryTable(r.result[1].originalType))
            /\ (r.pc = "returned" /\ r.lookup # "hit")
                  => /\ r.result[1].originalType = r.mediaInfo[1].mimeType
                     /\ r.result[1].processingType = C11_Strategy(CategoryOf(p))
                     /\ "optimize" \in r.ops
                     /\ "convert" \in r.ops <=> CategoryOf(p) # "static_image"

\* A natively supported PNG has been converted and cached, and a later call
\* has been served that asset from the cache.
C11_Witness ==
    \E p \in Requests :
        /\ req[p].pc = "returned" /\ req[p].lookup = "hit"
        /\ req[p].result[1].originalType = ImagePng
        /\ isNativeSupported(req[p].result[1].originalType)
        /\ req[p].result[1].processingType = "optimized_static"
        /\ req[p].result[1].mimeType = ImageJpeg

\* What the specification says resolveToFetchable returns for a locator.
C12_Resolved(locator) ==
    IF Len(locator) >= 7 /\ SubSeq(locator, 1, 7) = <<"i", "p", "f", "s", ":", "/", "/">>
    THEN <<"h", "t", "t", "p", "s", ":", "/", "/", "i", "p", "f", "s", ".", "i", "o",
           "/", "i", "p", "f", "s", "/">> \o SubSeq(locator, 8, Len(locator))
    ELSE locator

\* C12: the URL a call works on is its locator with ipfs:// replaced by the
\* first gateway, and the locator itself for a data URI or an HTTP(S) URL;
\* resolving that URL again, as downloadMedia does, gives the same URL.
C12_SourceResolution ==
    \A p \in Requests :
        LET r == req[p]
        IN  r.lookup # "none"
              => /\ r.httpUrl = C12_Resolved(r.image)
                 /\ convertIpfsToHttp(r.httpUrl) = r.httpUrl
                 /\ convertIpfsToHttp(convertIpfsToHttp(r.image)) = convertIpfsToHttp(r.image)
                 /\ (StartsWith(r.image, DataScheme)
                       \/ StartsWith(ToLowerCase(r.image), HttpScheme)) => r.httpUrl = r.image

\* The download of an ipfs:// locator has been issued to the first gateway.
C12_Witness ==
    \E p \in Requests :
        /\ req[p].image = LocIpfsMp4 /\ req[p].httpUrl = LocGatewayMp4
        /\ req[p].pc = "fetch"

\* The locator a cache key was built from.
C13_LocatorOfKey(k) == SubSeq(k, 1, Len(k) - Len(OptimizedSuffix))

\* C13: locators that resolve to the same URL share their cache entry: the
\* cache never holds two entries whose locators resolve to the same URL, and
\* a call goes past its lookup as a miss only if no entry younger than one
\* hour was set for a locator that resolves to the URL of the call.
C13_SharedCacheKey ==
    /\ \A k1, k2 \in DOMAIN mediaCache :
          convertIpfsToHttp(C13_LocatorOfKey(k1)) = convertIpfsToHttp(C13_LocatorOfKey(k2))
            => k1 = k2
    /\ \A p \in Requests :
          (req[p].lookup = "miss" /\ req[p].pc = "head" /\ req[p].probes = <<>>)
            => ~\E k \in DOMAIN stored :
                    /\ convertIpfsToHttp(C13_LocatorOfKey(k)) = req[p].httpUrl
                    /\ now - stored[k].timestamp < CACHE_DURATION

\* The fields of a complete asset.
C14_IsAsset(a) ==
    /\ DOMAIN a = {"buffer", "mimeType", "dimensions", "originalType", "processingType"}
    /\ a.mimeType = ImageJpeg
    /\ a.processingType = C11_Strategy(C8_CategoryTable(a.originalType))
    /\ a.buffer.call \in 1..calls

\* C14: with two calls in flight for one image, the cache holds at most one
\* entry for its key, every entry and every returned result is a complete
\* asset, a call returns from the cache only the entry that is there, and
\* the call that finishes sets the entry to its own asset, whatever entry
\* the other call had set before.
C14_SharedCache ==
    /\ [](/\ \A k \in DOMAIN mediaCache :
                /\ DOMAIN mediaCache[k] = {"data", "timestamp"}
                /\ C14_IsAsset(mediaCache[k].data)
          /\ \A p, q \in Slots :
                (req[p].cacheKey # <<>> /\ req[p].image = req[q].image)
                  => req[p].cacheKey = req[q].cacheKey
          /\ Cardinality(DOMAIN mediaCache) <= Cardinality(SharedImages)
          /\ \A p \in Slots :
                req[p].pc = "returned" => C14_IsAsset(req[p].result[1]))
    /\ [][\A p \in Slots :
            /\ (req[p].pc = "settle" /\ req'[p].pc = "returned")
                  => /\ mediaCache'[req[p].cacheKey].data = req'[p].result[1]
                     /\ req'[p].result[1].buffer.call = req[p].callId
            /\ (req'[p].lookup = "hit" /\ req'[p].callId # req[p].callId)
                  => req'[p].result = <<mediaCache[req'[p].cacheKey].data>>]_vars

\* Both calls for the image missed the cache, both ran the whole pipeline,
\* and the entry is the asset of the call that finished last.
C14_Witness ==
    /\ \A p \in Slots :
          /\ req[p].pc = "returned" /\ req[p].lookup = "miss"
          /\ {"download", "writeFile", "convert", "optimize"} \subseteq req[p].ops
    /\ req[1].image = req[2].image
    /\ req[1].callId = 1 /\ req[2].callId = 2
    /\ mediaCache[req[1].cacheKey].data = req[1].result[1]
    /\ req[1].result # req[2].result

\* The header of a base64 SVG data URI, up to and including the comma.
C15_SvgDataHeader ==
    <<"d", "a", "t", "a", ":", "i", "m", "a", "g", "e", "/", "s", "v", "g", "+", "x", "m", "l",
      ";", "b", "a", "s", "e", "6", "4", ",">>

\* C15: a call for a base64 SVG data URI issues no probe and no download;
\* unless it is served from the cache, its descriptor is built from the URI
\* itself, with category vector_image and isVector true; it does not throw,
\* and the asset it returns, fresh or cached, is a rasterized_vector JPEG
\* reported as 256 by 256.
C15_DataUriSvg ==
    \A p \in Requests :
        LET r == req[p]
        IN  (r.lookup # "none" /\ StartsWith(r.image, C15_SvgDataHeader)
               /\ Len(r.image) > Len(C15_SvgDataHeader))
              => /\ r.ops \cap {"head", "get", "download"} = {}
                 /\ r.probes = <<>>
                 /\ r.httpUrl = r.image
                 /\ r.lookup # "hit"
                      => /\ HasInfo(p) /\ r.via = "data"
                         /\ r.mediaInfo[1].category = "vector_image"
                         /\ r.mediaInfo[1].isVector
                 /\ r.pc # "threw"
                 /\ r.pc = "returned"
                      => /\ r.result[1].processingType = "rasterized_vector"
                         /\ r.result[1].mimeType = ImageJpeg
                         /\ r.result[1].dimensions = [width |-> 256, height |-> 256]

\* The call for the SVG data URI has returned the asset of the rasterized SVG.
C15_Witness ==
    \E p \in Requests :
        /\ req[p].image = LocDataSvg /\ req[p].pc = "returned"
        /\ ~req[p].convertFailed
        /\ req[p].result[1].buffer.from = "rasterized"
        /\ req[p].result[1].processingType = "rasterized_vector"

\* The locator without its query and fragment, in lower case.
C16_PathOf(url) == ToLowerCase(SubSeq(url, 1, FirstOf(url, {"?", "#"}) - 1))

\* The path of the locator ends with a dot and the extension.
C16_HasExtension(url, extension) ==
    LET path == C16_PathOf(url)
        n    == Len(extension) + 1
    IN  Len(path) > n /\ SubSeq(path, Len(path) - n + 1, Len(path)) = <<".">> \o extension

\* The extension table of the specification: extension, MIME type, category.
C16_Table ==
    {<<ExtPng, ImagePng, "static_image">>, <<ExtJpg, ImageJpeg, "static_image">>,
     <<ExtJpeg, ImageJpeg, "static_image">>, <<ExtWebp, ImageWebp, "static_image">>,
     <<ExtGif, ImageGif, "animated_image">>, <<ExtSvg, ImageSvg, "vector_image">>,
     <<ExtMp4, VideoMp4, "video">>, <<ExtWebm, VideoWebm, "video">>,
     <<ExtMov, VideoQuicktime, "video">>, <<ExtMp3, AudioMpeg, "audio">>,
     <<ExtWav, AudioWav, "audio">>}

\* C16: when the HEAD probe of an HTTP(S) URL is rejected, the descriptor
\* has the MIME type and the category the table gives for the extension of
\* the URL, and application/octet-stream and unknown when the extension is
\* none of the table's.
C16_ExtensionFallback ==
    \A p \in Requests :
        LET r    == req[p]
            info == r.mediaInfo[1]
        IN  (HasInfo(p) /\ r.probes = <<[probe |-> "head", outcome |-> "throw"]>>
               /\ StartsWith(ToLowerCase(r.httpUrl), HttpScheme))
              => /\ \A row \in C16_Table :
                       C16_HasExtension(r.httpUrl, row[1])
                         => info.mimeType = row[2] /\ info.category = row[3]
                 /\ (\A row \in C16_Table : ~C16_HasExtension(r.httpUrl, row[1]))
                       => info.mimeType = OctetStream /\ info.category = "unknown"

\* The extension jpeg has been looked up after a rejected HEAD probe.
C16_Witness ==
    \E p \in Requests :
        /\ HasInfo(p) /\ req[p].probes = <<[probe |-> "head", outcome |-> "throw"]>>
        /\ req[p].image = LocJpeg
        /\ req[p].mediaInfo[1].mimeType = ImageJpeg
        /\ req[p].mediaInfo[1].category = "static_image"

\* The probes of call p that have settled include the ranged GET.
C17_GetAttempted(p) == \E i \in 1..Len(req[p].probes) : req[p].probes[i].probe = "get"

\* C17: for an HTTP(S) URL, a descriptor is taken from the URL-extension table only after the
\* ranged GET has been attempted; and once the HEAD probe has failed, by a
\* status that is not ok or by a rejection, the ranged GET has been issued.
C17_ProbeOrdering ==
    \A p \in Requests :
        StartsWith(ToLowerCase(req[p].httpUrl), HttpScheme)
          => /\ (HasInfo(p) /\ req[p].via = "extension") => C17_GetAttempted(p)
             /\ (req[p].probes # <<>> /\ req[p].probes[1].outcome # "ok")
                   => "get" \in req[p].ops

\* The MIME type the extension table of the specification gives for a URL.
C18_TableMimeType(url) ==
    IF \E row \in C16_Table : C16_HasExtension(url, row[1])
    THEN (CHOOSE row \in C16_Table : C16_HasExtension(url, row[1]))[2]
    ELSE OctetStream

\* C18: when the HEAD probe and the ranged GET have both failed, each by a
\* status that is not ok or by a rejection, the MIME type of the descriptor
\* is the one the extension table gives for the URL.
C18_BothFailedUsesTable ==
    \A p \in Requests :
        (HasInfo(p) /\ Len(req[p].probes) = 2
           /\ req[p].probes[1].outcome # "ok" /\ req[p].probes[2].outcome # "ok"
           /\ StartsWith(ToLowerCase(req[p].httpUrl), HttpScheme))
          => req[p].mediaInfo[1].mimeType = C18_TableMimeType(req[p].httpUrl)

\* The causes a failed fetch is reported with.
C19_FetchErrors ==
    {NetworkErrorMessage, <<"Failed to download media: ", "404">>, TooLargeMessage,
     <<"Failed to process data URL: ", "Invalid data URL format">>}

\* C19: a call whose fetch has failed, whatever its category, has thrown the
\* wrapped error of the fetch: no converter and no optimizer has run, there
\* is no raster, placeholder or result, no file, and no cache entry of it.
C19_FetchFailureFails ==
    \A p \in Requests :
        LET r == req[p]
        IN  r.fetchFailed
              => /\ r.pc = "threw"
                 /\ \E cause \in C19_FetchErrors : r.error = <<"Failed to process media: ">> \o cause
                 /\ r.ops \cap {"writeFile", "convert", "optimize"} = {}
                 /\ r.frame = "none"
                 /\ r.result = <<>>
                 /\ FilesOf(r.callId) = {}
                 /\ ~CacheWrittenBy(r.callId)

\* The download of a GIF or of an SVG has failed by its status.
C19_Witness ==
    \E p \in Requests :
        /\ HasInfo(p) /\ CategoryOf(p) \in {"animated_image", "vector_image"}
        /\ req[p].fetchFailed /\ req[p].pc = "threw"
        /\ req[p].error = wrapError(<<"Failed to download media: ", "404">>)

\* C20: when the rasterization of a fetched SVG fails, the call carries no
\* error and goes on with the placeholder of rasterizeSvg; it does not
\* throw, and its asset is a rasterized_vector asset encoded from that
\* placeholder.
C20_VectorDegrades ==
    \A p \in Requests :
        LET r == req[p]
        IN  (HasInfo(p) /\ r.mediaInfo[1].mimeType = ImageSvg /\ r.convertFailed)
              => /\ r.error = <<>>
                 /\ r.frame = "svg_placeholder"
                 /\ r.pc \in {"optimize", "cleanup", "settle", "returned"}
                 /\ r.pc \in {"cleanup", "settle", "returned"}
                      => /\ r.result # <<>>
                         /\ r.result[1].processingType = "rasterized_vector"
                         /\ r.result[1].buffer.from = "svg_placeholder"

\* A downloaded SVG whose rasterization failed has been returned as an asset.
C20_Witness ==
    \E p \in Requests :
        /\ HasInfo(p) /\ req[p].mediaInfo[1].mimeType = ImageSvg
        /\ {"download", "writeFile", "convert"} \subseteq req[p].ops
        /\ req[p].convertFailed /\ req[p].pc = "returned"
        /\ req[p].result[1].processingType = "rasterized_vector"

\* The background the specification gives the optimizer for a category.
C21_Background(category) ==
    IF category \in {"static_image", "animated_image", "vector_image"}
    THEN [r |-> 255, g |-> 255, b |-> 255, alpha |-> 1]
    ELSE [r |-> 0, g |-> 0, b |-> 0, alpha |-> 1]

\* The assets that exist: the results of the calls and the cache entries.
C21_Assets ==
    {req[p].result[1] : p \in {q \in DOMAIN req : req[q].result # <<>>}}
      \cup {mediaCache[k].data : k \in DOMAIN mediaCache}

\* C21: the optimizer of a call is given the white background when the
\* category is static_image, animated_image or vector_image and the black
\* one when it is video or audio; and two encodings of the same raster with
\* the same background are made with the same arguments throughout.
C21_BackgroundFill ==
    /\ \A p \in Requests :
          (req[p].result # <<>> /\ req[p].lookup # "hit")
            => req[p].result[1].buffer.options.background = C21_Background(CategoryOf(p))
    /\ \A a \in C21_Assets :
          a.buffer.options.background
            = C21_Background(C8_CategoryTable(a.originalType))
    /\ \A a, b \in C21_Assets :
          (a.buffer.from = b.buffer.from
             /\ a.buffer.options.background = b.buffer.options.background)
            => a.buffer.options = b.buffer.options

\* A video frame has been encoded on black while the asset of an earlier
\* call, encoded on white, is in the cache.
C21_Witness ==
    \E p \in Requests, k \in DOMAIN mediaCache :
        /\ req[p].result # <<>> /\ req[p].lookup = "miss"
        /\ CategoryOf(p) = "video"
        /\ req[p].result[1].buffer.options.background.r = 0
        /\ mediaCache[k].data.buffer.options.background.r = 255

\* The MIME segment of a data URI: the text between the scheme and the
\* first semicolon or comma.
C22_MimeSegment(url) ==
    LET rest == SubSeq(url, Len(DataScheme) + 1, Len(url))
    IN  SubSeq(rest, 1, FirstOf(rest, {";", ","}) - 1)

C22_WellFormed(url) == Includes(url, <<",">>) /\ C22_MimeSegment(url) # <<>>

\* C22: detection of a data URI issues no probe and returns a descriptor;
\* for a URI with a comma and a MIME segment the mimeType is that segment,
\* and for a URI with no comma or with an empty MIME segment the mimeType is
\* application/octet-stream and the size is 0.
C22_DataUriDetection ==
    \A p \in Requests :
        LET r == req[p]
        IN  (r.lookup \in {"miss", "expired"} /\ StartsWith(r.image, DataScheme))
              => /\ r.probes = <<>> /\ r.ops \cap {"head", "get"} = {}
                 /\ HasInfo(p)
                 /\ C22_WellFormed(r.image)
                      => r.mediaInfo[1].mimeType = ToLowerCase(C22_MimeSegment(r.image))
                 /\ ~C22_WellFormed(r.image)
                      => /\ r.mediaInfo[1].mimeType = OctetStream
                         /\ r.mediaInfo[1].size = 0

\* The data segment of a data URI: everything after its first comma.
C23_DataSegment(url) ==
    LET comma == IndexOf(url, <<",">>)
    IN  IF comma = 0 THEN <<>> ELSE SubSeq(url, comma + 1, Len(url))

C23_Encoding(url) ==
    IF Includes(Split(url, <<",">>)[1], Base64Word) THEN "base64" ELSE "percent"

\* C23: the payload fetched for a data URI is the decoding of the whole
\* data segment after the first comma, as base64 when the header declares
\* base64 and as percent-encoded text otherwise; or the fetch fails with
\* the invalid-data-URI error and no temporary file exists for the call.
C23_DataUriFetch ==
    \A p \in Requests :
        LET r == req[p]
        IN  StartsWith(r.image, DataScheme)
              => /\ r.download # <<>>
                      => LET buffer == r.download[1].buffer[1]
                         IN  /\ buffer.exact
                             /\ buffer.decoded =
                                   <<[text |-> C23_DataSegment(r.image),
                                      encoding |-> C23_Encoding(r.image)]>>
                 /\ r.fetchFailed
                      => /\ r.pc = "threw"
                         /\ StartsWith(r.error, wrapError(<<"Failed to process data URL: ">>))
                         /\ FilesOf(r.callId) = {}

\* C23 on a data URI whose data segment contains commas: once it has been
\* fetched, the text that was decoded is the whole segment after the first
\* comma.
C23_CommaTruncated ==
    \A p \in Requests :
        LET r == req[p]
        IN  (r.image = LocDataCommas /\ r.download # <<>>)
              => r.download[1].buffer[1].decoded[1].text = C23_DataSegment(r.image)

\* The extensions the claim allows: the values of the MIME-type map of
\* lines 234-242 and the default.
C24_Allowed ==
    {<<"p", "n", "g">>, <<"j", "p", "g">>, <<"s", "v", "g">>, <<"g", "i", "f">>,
     <<"w", "e", "b", "p">>, <<"b", "i", "n">>}

\* C24: whenever a fetch has succeeded, for a data URI or for an HTTP or IPFS
\* locator, the extension of its temporary file is non-empty, alphanumeric,
\* and one of png, jpg, svg, gif, webp or bin.
C24_TempFileExtension ==
    \A p \in Requests :
        LET r == req[p]
        IN  r.download # <<>>
              => LET tail      == r.download[1].path.tail
                     extension == SubSeq(tail, 2, Len(tail))
                 IN  /\ tail[1] = "."
                     /\ extension # <<>>
                     /\ \A i \in 1..Len(extension) : IsAlnum(extension[i])
                     /\ extension \in C24_Allowed

\* C24 on the locator without an extension: its temporary file, once the
\* fetch has succeeded, has an extension of the allow-list or bin.
C24_PathlessLocator ==
    \A p \in Requests :
        LET r == req[p]
        IN  (r.image = LocNoExt /\ r.download # <<>>)
              => SubSeq(r.download[1].path.tail, 2, Len(r.download[1].path.tail)) \in C24_Allowed

\* The age of an entry of TEMP_DIR.
C25_Age(f) == now - fileStats[f].mtime

\* C25, the first half: a sweep deletes only entries older than one hour.
C25_OnlyOldDeleted ==
    [][\A f \in tempFiles :
          (sweep.pc = "unlink" /\ sweep' # sweep /\ f \notin tempFiles')
             => C25_Age(f) > oneHour]_vars

C25_Entries == {SweepPath(c) : c \in 1..MaxSweepFiles}

\* C25: a sweep deletes only entries older than one hour, and with recurring
\* sweeps every temporary file that is older than one hour is eventually
\* gone, whatever happens to the other entries during the sweeps.
C25_BackgroundSweep ==
    /\ C25_OnlyOldDeleted
    /\ \A f \in C25_Entries :
          (f \in tempFiles /\ fileStats[f].ok /\ C25_Age(f) > oneHour) ~> (f \notin tempFiles)


\* The attribute entries with a non-empty key and a non-empty value.
C26_Qualifying(attributes) ==
    IF attributes.type # "array" THEN <<>>
    ELSE SelectSeq(attributes.items,
                   LAMBDA a : /\ a.type = "object"
                              /\ a.key.type = "string" /\ a.key.text # ""
                              /\ a.value.type = "string" /\ a.value.text # "")

RECURSIVE C26_Bullets(_)
C26_Bullets(entries) ==
    IF entries = <<>> THEN <<>>
    ELSE <<"- ", entries[1].key.text, ": ", entries[1].value.text>>
           \o (IF Len(entries) = 1 THEN <<>> ELSE <<"\n">>) \o C26_Bullets(Tail(entries))

\* C26: the prompt is the base text, then, only when some attribute entry
\* has a non-empty key and value, the traits header and one bullet
\* '- key: value' for exactly those entries in their order, then the note of
\* the processing type and the instructions.
C26_TraitsRendering ==
    prompt # <<>>
      => LET nft        == prompt[1].nft
             qualifying == C26_Qualifying(nft.attributes)
         IN  prompt[1].fullPrompt =
                 basePrompt(nft)
                   \o (IF qualifying = <<>> THEN <<>>
                       ELSE <<TraitsHeader>> \o C26_Bullets(qualifying))
                   \o processingContext(prompt[1].processedMedia.processingType)
                   \o <<PromptInstructions>>


\* C27: a call changes the cache only when it evicts the expired entry of
\* its own key at its lookup, or when it returns and sets the entry of its own
\* key; so a call that fails adds and overwrites nothing, and every cached
\* asset was produced by a call that returned.
C27_FailureKeepsCache ==
    /\ [](\A k \in DOMAIN mediaCache, p \in Requests :
            /\ C14_IsAsset(mediaCache[k].data)
            /\ mediaCache[k].data.buffer.call = req[p].callId => req[p].pc = "returned")
    /\ [][\A p \in Requests :
            ((Lookup(p) \/ req'[p].pc # req[p].pc) /\ mediaCache' # mediaCache)
              => \/ /\ Lookup(p)
                    /\ req'[p].lookup = "expired"
                    /\ ~isFresh(mediaCache[req'[p].cacheKey], now)
                    /\ mediaCache' = MapDelete(mediaCache, req'[p].cacheKey)
                 \/ /\ req[p].pc = "settle" /\ req'[p].pc = "returned"
                    /\ mediaCache' = MapSet(mediaCache, req[p].cacheKey,
                                            [data |-> req'[p].result[1], timestamp |-> now])]_vars

\* A call whose lookup evicted the expired entry of its key has failed, and
\* the key has no entry.
C27_Witness ==
    \E p \in Requests :
        /\ req[p].pc = "threw"
        /\ req[p].lookup = "expired"
        /\ req[p].ops # {}
        /\ ~MapHas(mediaCache, req[p].cacheKey)

\* The temporary paths a call holds: of its download and of its converter.
C28_PathsOf(p) ==
    {d.path : d \in Range(req[p].download)} \cup Range(req[p].outputPath)

\* C28: two calls in flight, for the same locator too, never hold the same
\* temporary path; the downloaded file of a call exists from its write until
\* the call itself releases it, whatever the other call does; a release
\* removes the call's own file and no other; and after it the file is gone,
\* so that releasing again removes nothing.
C28_PrivateTempFiles ==
    /\ [](\A p, q \in Slots :
            /\ (p # q /\ ~Done(p) /\ ~Done(q)) => C28_PathsOf(p) \cap C28_PathsOf(q) = {}
            /\ (req[p].pc \in {"convert", "readframe", "optimize", "cleanup"}
                   /\ req[p].download # <<>>)
                  => req[p].download[1].path \in tempFiles
            /\ (req[p].pc = "settle" /\ req[p].download # <<>>)
                  => /\ req[p].download[1].path \notin tempFiles
                     /\ tempFiles \ {req[p].download[1].path} = tempFiles)
    /\ [][\A p \in Slots :
            (req[p].pc = "cleanup" /\ req'[p].pc = "settle")
              => /\ tempFiles' = tempFiles \ {req[p].download[1].path}
                 /\ \A q \in Slots \ {p} : C28_PathsOf(q) \cap tempFiles' = C28_PathsOf(q) \cap tempFiles]_vars

\* One call has released its file while the other call, for the same
\* locator, is converting its own.
C28_Witness ==
    \E p, q \in Slots :
        /\ p # q /\ req[p].image = req[q].image
        /\ req[p].pc = "settle" /\ req[p].download # <<>>
        /\ req[q].pc \in {"convert", "readframe", "optimize"} /\ req[q].download # <<>>
        /\ req[q].download[1].path \in tempFiles

\* C29: right after clearCache the statistics report no entry and a lookup
\* of any locator is a miss; a call that was in flight when the cache was
\* cleared still sets its entry when it returns; and every entry of the
\* cache was set since the last clear.
C29_ClearAgainstInFlight ==
    /\ [](\A k \in DOMAIN mediaCache : MapHas(stored, k) /\ mediaCache[k] = stored[k])
    /\ [][/\ (stored' = EmptyMap /\ UNCHANGED <<calls, now>>)
              => /\ getCacheStats'.size = 0 /\ getCacheStats'.entries = {}
                 /\ \A image \in CachedImages : ~MapHas(mediaCache', cacheKeyOf(image))
           /\ \A p \in Requests :
                /\ (Lookup(p) /\ getCacheStats.size = 0 /\ req'[p].image # <<>>)
                      => req'[p].lookup = "miss"
                /\ (req[p].pc = "settle" /\ req[p].cleared /\ req'[p].pc = "returned")
                      => /\ MapHas(mediaCache', req[p].cacheKey)
                         /\ mediaCache'[req[p].cacheKey].data = req'[p].result[1]
                         /\ req'[p].result[1].buffer.call = req[p].callId]_vars

\* The cache was cleared while the second call was in flight; the call has
\* returned, and the only entry of the cache is the one it set.
C29_Witness ==
    \E p \in Requests :
        /\ req[p].cleared /\ req[p].pc = "returned" /\ req[p].callId = 2
        /\ DOMAIN mediaCache = {req[p].cacheKey}
        /\ mediaCache[req[p].cacheKey].data = req[p].result[1]

\* The lookup of a key leaves the entries of the other keys as they were.
C30_OtherKeysKept ==
    \A p \in Requests :
        Lookup(p)
          => \A k \in DOMAIN mediaCache \ {req'[p].cacheKey} :
                MapHas(mediaCache', k) /\ mediaCache'[k] = mediaCache[k]

\* An expired entry leaves the statistics only in the lookup of its key or
\* in a clear.
C30_ExpiredStays ==
    \A k \in DOMAIN mediaCache :
        (~isFresh(mediaCache[k], now) /\ k \notin getCacheStats'.entries)
          => \/ \E p \in Requests : Lookup(p) /\ req'[p].cacheKey = k
             \/ mediaCache' = EmptyMap /\ UNCHANGED <<calls, now>>

\* C30: the lookup of a key leaves the entry of every other key as it was,
\* expired or not; an expired entry leaves the cache only in the lookup of
\* its own key or in a clear, and until then getCacheStats counts it.
C30_LazyEviction ==
    /\ [](getCacheStats.entries = DOMAIN mediaCache
            /\ getCacheStats.size = Cardinality(DOMAIN mediaCache))
    /\ [][C30_OtherKeysKept /\ C30_ExpiredStays]_vars

\* The lookup of one key was a miss while the expired entry of another key
\* is in the cache.
C30_Witness ==
    \E p \in Requests, k \in DOMAIN mediaCache :
        /\ req[p].lookup = "miss" /\ ~Done(p)
        /\ k # req[p].cacheKey
        /\ ~isFresh(mediaCache[k], now)
        /\ getCacheStats.size = 1
====
